---- MODULE Spec2Model ----
(***************************************************************************)
(* BiliTube-Wormhole: the identity reconciliation core.                    *)
(*   - UserVerifier.verify and its helpers   (src/src/workflows/verifier.ts)*)
(*   - ShardManager                          (src/src/storage/shard-manager.ts)*)
(*   - the verify workflow main loop         (src/unnamed/part_006)        *)
(*   - RateLimiter                           (src/unnamed/part_007)        *)
(*                                                                         *)
(* A JavaScript string is a sequence of one-character strings.  A          *)
(* character outside ASCII is written by its code point: "U+9891" is the   *)
(* single character U+9891.  A number is the fraction <<numerator,         *)
(* denominator>> it is the double nearest to; <<0, 0>> is NaN (0/0) and    *)
(* <<n, 0>> an infinity, for which the comparisons are false as the code   *)
(* uses them.  Where double arithmetic leaves the nearest double, the      *)
(* distance is kept as a third component (see ulps).  An optional boolean  *)
(* field holds "true" or "false".                                          *)
(***************************************************************************)
EXTENDS Integers, Sequences, FiniteSets, TLC

VARIABLES
    vIn,        \* verifier: the arguments (and collaborator responses) of the last call made
    vOut,       \* verifier: what that call returned
    fs,         \* one ShardManager: the files under its baseDir (path -> content)
    inflight,   \* one ShardManager: the calls that have started and not settled
    lastWrite,  \* history: per identifier, the last completed writeMapping/deleteMapping
    opOut,      \* one ShardManager: what the last completed call returned
    built,      \* one ShardManager's caller: the indexes buildIndex returned, not yet written
    batch,      \* one ShardManager: the batchWrite call made, its list and its promise
    users,      \* verify workflow: the work items parsed from USERS_JSON
    idx,        \* verify workflow: number of work items the loop has finished
    b2y,        \* verify workflow: files of the store keyed by Bilibili uid
    y2b,        \* verify workflow: files of the store keyed by YouTube channel id
    results,    \* verify workflow: the results array
    pc,         \* verify workflow: where main() is ("start", "loop", "done", "aborted")
    queue,      \* RateLimiter: this.queue (task ids, oldest first)
    processing, \* RateLimiter: this.processing
    loops,      \* RateLimiter: the activations of process() that have not returned
    tasks,      \* RateLimiter: per submitted task, its progress and its promise
    sinceCompletion, \* RateLimiter: clock ticks since a task last completed (up to DelayTicks)
    time,       \* submission worker: Date.now(), in ticks of half an hour
    kv,         \* submission worker: RATE_LIMIT_KV's value under ratelimit:<ip> of one client
    submissions, \* submission worker: per handler slot, the POST /submit being handled
    received,   \* submission worker: number of requests of the client received so far
    admitted,   \* history: per tick, the requests received then that checkRateLimit allowed
    windows,    \* history: the rate-limit windows checkRateLimit has started
    response,   \* submission worker: the last response sent
    clientTime, \* MappingClient: Date.now(), in ticks of half an hour
    b2yIndex,   \* MappingClient: this.b2yIndex (null, or data and timestamp)
    mappingCache, \* MappingClient: this.mappingCache, per uid (key b2y:<uid>)
    lookups,    \* MappingClient: per slot, the getMappingByBiliUid call in progress
    lookupOut,  \* MappingClient: the last getMappingByBiliUid call that returned
    fetchedLog  \* history: per uid, the mapping last fetched and when, or that it was cleared

vars == <<vIn, vOut, fs, inflight, lastWrite, opOut, built, batch, users, idx, b2y, y2b,
          results, pc, queue, processing, loops, tasks, sinceCompletion,
          time, kv, submissions, received, admitted, windows, response,
          clientTime, b2yIndex, mappingCache, lookups, lookupOut, fetchedLog>>

verifierVars == <<vIn, vOut>>
shardVars    == <<fs, inflight, lastWrite, opOut, built, batch>>
workflowVars == <<users, idx, b2y, y2b, results, pc>>
limiterVars  == <<queue, processing, loops, tasks, sinceCompletion>>
submitVars   == <<time, kv, submissions, received, admitted, windows, response>>
clientVars   == <<clientTime, b2yIndex, mappingCache, lookups, lookupOut, fetchedLog>>

Undefined == <<>>          \* a JavaScript undefined / an absent optional field
Null      == <<"null">>    \* a JavaScript null
IsNull(v) == Null = v      \* v === null
NaN       == <<0, 0>>      \* the result of 0/0
Num(n)    == <<n, 1>>      \* the number n

(***************************************************************************)
(* Strings                                                                 *)
(***************************************************************************)
\* the code units with a one-to-one lower-case mapping (Unicode 17), A-Z first:
\* UpperCase[k] is lowered to LowerCase[k]
UpperCase ==
    << "A", "B", "C", "D", "E", "F", "G", "H", "I", "J", "K", "L", "M", "N", "O", "P", "Q", "R",
       "S", "T", "U", "V", "W", "X", "Y", "Z", "U+00C0", "U+00C1", "U+00C2", "U+00C3", "U+00C4",
       "U+00C5", "U+00C6", "U+00C7", "U+00C8", "U+00C9", "U+00CA", "U+00CB", "U+00CC", "U+00CD",
       "U+00CE", "U+00CF", "U+00D0", "U+00D1", "U+00D2", "U+00D3", "U+00D4", "U+00D5", "U+00D6",
       "U+00D8", "U+00D9", "U+00DA", "U+00DB", "U+00DC", "U+00DD", "U+00DE", "U+0100", "U+0102",
       "U+0104", "U+0106", "U+0108", "U+010A", "U+010C", "U+010E", "U+0110", "U+0112", "U+0114",
       "U+0116", "U+0118", "U+011A", "U+011C", "U+011E", "U+0120", "U+0122", "U+0124", "U+0126",
       "U+0128", "U+012A", "U+012C", "U+012E", "U+0132", "U+0134", "U+0136", "U+0139", "U+013B",
       "U+013D", "U+013F", "U+0141", "U+0143", "U+0145", "U+0147", "U+014A", "U+014C", "U+014E",
       "U+0150", "U+0152", "U+0154", "U+0156", "U+0158", "U+015A", "U+015C", "U+015E", "U+0160",
       "U+0162", "U+0164", "U+0166", "U+0168", "U+016A", "U+016C", "U+016E", "U+0170", "U+0172",
       "U+0174", "U+0176", "U+0178", "U+0179", "U+017B", "U+017D", "U+0181", "U+0182", "U+0184",
       "U+0186", "U+0187", "U+0189", "U+018A", "U+018B", "U+018E", "U+018F", "U+0190", "U+0191",
       "U+0193", "U+0194", "U+0196", "U+0197", "U+0198", "U+019C", "U+019D", "U+019F", "U+01A0",
       "U+01A2", "U+01A4", "U+01A6", "U+01A7", "U+01A9", "U+01AC", "U+01AE", "U+01AF", "U+01B1",
       "U+01B2", "U+01B3", "U+01B5", "U+01B7", "U+01B8", "U+01BC", "U+01C4", "U+01C5", "U+01C7",
       "U+01C8", "U+01CA", "U+01CB", "U+01CD", "U+01CF", "U+01D1", "U+01D3", "U+01D5", "U+01D7",
       "U+01D9", "U+01DB", "U+01DE", "U+01E0", "U+01E2", "U+01E4", "U+01E6", "U+01E8", "U+01EA",
       "U+01EC", "U+01EE", "U+01F1", "U+01F2", "U+01F4", "U+01F6", "U+01F7", "U+01F8", "U+01FA",
       "U+01FC", "U+01FE", "U+0200", "U+0202", "U+0204", "U+0206", "U+0208", "U+020A", "U+020C",
       "U+020E", "U+0210", "U+0212", "U+0214", "U+0216", "U+0218", "U+021A", "U+021C", "U+021E",
       "U+0220", "U+0222", "U+0224", "U+0226", "U+0228", "U+022A", "U+022C", "U+022E", "U+0230",
       "U+0232", "U+023A", "U+023B", "U+023D", "U+023E", "U+0241", "U+0243", "U+0244", "U+0245",
       "U+0246", "U+0248", "U+024A", "U+024C", "U+024E", "U+0370", "U+0372", "U+0376", "U+037F",
       "U+0386", "U+0388", "U+0389", "U+038A", "U+038C", "U+038E", "U+038F", "U+0391", "U+0392",
       "U+0393", "U+0394", "U+0395", "U+0396", "U+0397", "U+0398", "U+0399", "U+039A", "U+039B",
       "U+039C", "U+039D", "U+039E", "U+039F", "U+03A0", "U+03A1", "U+03A3", "U+03A4", "U+03A5",
       "U+03A6", "U+03A7", "U+03A8", "U+03A9", "U+03AA", "U+03AB", "U+03CF", "U+03D8", "U+03DA",
       "U+03DC", "U+03DE", "U+03E0", "U+03E2", "U+03E4", "U+03E6", "U+03E8", "U+03EA", "U+03EC",
       "U+03EE", "U+03F4", "U+03F7", "U+03F9", "U+03FA", "U+03FD", "U+03FE", "U+03FF", "U+0400",
       "U+0401", "U+0402", "U+0403", "U+0404", "U+0405", "U+0406", "U+0407", "U+0408", "U+0409",
       "U+040A", "U+040B", "U+040C", "U+040D", "U+040E", "U+040F", "U+0410", "U+0411", "U+0412",
       "U+0413", "U+0414", "U+0415", "U+0416", "U+0417", "U+0418", "U+0419", "U+041A", "U+041B",
       "U+041C", "U+041D", "U+041E", "U+041F", "U+0420", "U+0421", "U+0422", "U+0423", "U+0424",
       "U+0425", "U+0426", "U+0427", "U+0428", "U+0429", "U+042A", "U+042B", "U+042C", "U+042D",
       "U+042E", "U+042F", "U+0460", "U+0462", "U+0464", "U+0466", "U+0468", "U+046A", "U+046C",
       "U+046E", "U+0470", "U+0472", "U+0474", "U+0476", "U+0478", "U+047A", "U+047C", "U+047E",
       "U+0480", "U+048A", "U+048C", "U+048E", "U+0490", "U+0492", "U+0494", "U+0496", "U+0498",
       "U+049A", "U+049C", "U+049E", "U+04A0", "U+04A2", "U+04A4", "U+04A6", "U+04A8", "U+04AA",
       "U+04AC", "U+04AE", "U+04B0", "U+04B2", "U+04B4", "U+04B6", "U+04B8", "U+04BA", "U+04BC",
       "U+04BE", "U+04C0", "U+04C1", "U+04C3", "U+04C5", "U+04C7", "U+04C9", "U+04CB", "U+04CD",
       "U+04D0", "U+04D2", "U+04D4", "U+04D6", "U+04D8", "U+04DA", "U+04DC", "U+04DE", "U+04E0",
       "U+04E2", "U+04E4", "U+04E6", "U+04E8", "U+04EA", "U+04EC", "U+04EE", "U+04F0", "U+04F2",
       "U+04F4", "U+04F6", "U+04F8", "U+04FA", "U+04FC", "U+04FE", "U+0500", "U+0502", "U+0504",
       "U+0506", "U+0508", "U+050A", "U+050C", "U+050E", "U+0510", "U+0512", "U+0514", "U+0516",
       "U+0518", "U+051A", "U+051C", "U+051E", "U+0520", "U+0522", "U+0524", "U+0526", "U+0528",
       "U+052A", "U+052C", "U+052E", "U+0531", "U+0532", "U+0533", "U+0534", "U+0535", "U+0536",
       "U+0537", "U+0538", "U+0539", "U+053A", "U+053B", "U+053C", "U+053D", "U+053E", "U+053F",
       "U+0540", "U+0541", "U+0542", "U+0543", "U+0544", "U+0545", "U+0546", "U+0547", "U+0548",
       "U+0549", "U+054A", "U+054B", "U+054C", "U+054D", "U+054E", "U+054F", "U+0550", "U+0551",
       "U+0552", "U+0553", "U+0554", "U+0555", "U+0556", "U+10A0", "U+10A1", "U+10A2", "U+10A3",
       "U+10A4", "U+10A5", "U+10A6", "U+10A7", "U+10A8", "U+10A9", "U+10AA", "U+10AB", "U+10AC",
       "U+10AD", "U+10AE", "U+10AF", "U+10B0", "U+10B1", "U+10B2", "U+10B3", "U+10B4", "U+10B5",
       "U+10B6", "U+10B7", "U+10B8", "U+10B9", "U+10BA", "U+10BB", "U+10BC", "U+10BD", "U+10BE",
       "U+10BF", "U+10C0", "U+10C1", "U+10C2", "U+10C3", "U+10C4", "U+10C5", "U+10C7", "U+10CD",
       "U+13A0", "U+13A1", "U+13A2", "U+13A3", "U+13A4", "U+13A5", "U+13A6", "U+13A7", "U+13A8",
       "U+13A9", "U+13AA", "U+13AB", "U+13AC", "U+13AD", "U+13AE", "U+13AF", "U+13B0", "U+13B1",
       "U+13B2", "U+13B3", "U+13B4", "U+13B5", "U+13B6", "U+13B7", "U+13B8", "U+13B9", "U+13BA",
       "U+13BB", "U+13BC", "U+13BD", "U+13BE", "U+13BF", "U+13C0", "U+13C1", "U+13C2", "U+13C3",
       "U+13C4", "U+13C5", "U+13C6", "U+13C7", "U+13C8", "U+13C9", "U+13CA", "U+13CB", "U+13CC",
       "U+13CD", "U+13CE", "U+13CF", "U+13D0", "U+13D1", "U+13D2", "U+13D3", "U+13D4", "U+13D5",
       "U+13D6", "U+13D7", "U+13D8", "U+13D9", "U+13DA", "U+13DB", "U+13DC", "U+13DD", "U+13DE",
       "U+13DF", "U+13E0", "U+13E1", "U+13E2", "U+13E3", "U+13E4", "U+13E5", "U+13E6", "U+13E7",
       "U+13E8", "U+13E9", "U+13EA", "U+13EB", "U+13EC", "U+13ED", "U+13EE", "U+13EF", "U+13F0",
       "U+13F1", "U+13F2", "U+13F3", "U+13F4", "U+13F5", "U+1C89", "U+1C90", "U+1C91", "U+1C92",
       "U+1C93", "U+1C94", "U+1C95", "U+1C96", "U+1C97", "U+1C98", "U+1C99", "U+1C9A", "U+1C9B",
       "U+1C9C", "U+1C9D", "U+1C9E", "U+1C9F", "U+1CA0", "U+1CA1", "U+1CA2", "U+1CA3", "U+1CA4",
       "U+1CA5", "U+1CA6", "U+1CA7", "U+1CA8", "U+1CA9", "U+1CAA", "U+1CAB", "U+1CAC", "U+1CAD",
       "U+1CAE", "U+1CAF", "U+1CB0", "U+1CB1", "U+1CB2", "U+1CB3", "U+1CB4", "U+1CB5", "U+1CB6",
       "U+1CB7", "U+1CB8", "U+1CB9", "U+1CBA", "U+1CBD", "U+1CBE", "U+1CBF", "U+1E00", "U+1E02",
       "U+1E04", "U+1E06", "U+1E08", "U+1E0A", "U+1E0C", "U+1E0E", "U+1E10", "U+1E12", "U+1E14",
       "U+1E16", "U+1E18", "U+1E1A", "U+1E1C", "U+1E1E", "U+1E20", "U+1E22", "U+1E24", "U+1E26",
       "U+1E28", "U+1E2A", "U+1E2C", "U+1E2E", "U+1E30", "U+1E32", "U+1E34", "U+1E36", "U+1E38",
       "U+1E3A", "U+1E3C", "U+1E3E", "U+1E40", "U+1E42", "U+1E44", "U+1E46", "U+1E48", "U+1E4A",
       "U+1E4C", "U+1E4E", "U+1E50", "U+1E52", "U+1E54", "U+1E56", "U+1E58", "U+1E5A", "U+1E5C",
       "U+1E5E", "U+1E60", "U+1E62", "U+1E64", "U+1E66", "U+1E68", "U+1E6A", "U+1E6C", "U+1E6E",
       "U+1E70", "U+1E72", "U+1E74", "U+1E76", "U+1E78", "U+1E7A", "U+1E7C", "U+1E7E", "U+1E80",
       "U+1E82", "U+1E84", "U+1E86", "U+1E88", "U+1E8A", "U+1E8C", "U+1E8E", "U+1E90", "U+1E92",
       "U+1E94", "U+1E9E", "U+1EA0", "U+1EA2", "U+1EA4", "U+1EA6", "U+1EA8", "U+1EAA", "U+1EAC",
       "U+1EAE", "U+1EB0", "U+1EB2", "U+1EB4", "U+1EB6", "U+1EB8", "U+1EBA", "U+1EBC", "U+1EBE",
       "U+1EC0", "U+1EC2", "U+1EC4", "U+1EC6", "U+1EC8", "U+1ECA", "U+1ECC", "U+1ECE", "U+1ED0",
       "U+1ED2", "U+1ED4", "U+1ED6", "U+1ED8", "U+1EDA", "U+1EDC", "U+1EDE", "U+1EE0", "U+1EE2",
       "U+1EE4", "U+1EE6", "U+1EE8", "U+1EEA", "U+1EEC", "U+1EEE", "U+1EF0", "U+1EF2", "U+1EF4",
       "U+1EF6", "U+1EF8", "U+1EFA", "U+1EFC", "U+1EFE", "U+1F08", "U+1F09", "U+1F0A", "U+1F0B",
       "U+1F0C", "U+1F0D", "U+1F0E", "U+1F0F", "U+1F18", "U+1F19", "U+1F1A", "U+1F1B", "U+1F1C",
       "U+1F1D", "U+1F28", "U+1F29", "U+1F2A", "U+1F2B", "U+1F2C", "U+1F2D", "U+1F2E", "U+1F2F",
       "U+1F38", "U+1F39", "U+1F3A", "U+1F3B", "U+1F3C", "U+1F3D", "U+1F3E", "U+1F3F", "U+1F48",
       "U+1F49", "U+1F4A", "U+1F4B", "U+1F4C", "U+1F4D", "U+1F59", "U+1F5B", "U+1F5D", "U+1F5F",
       "U+1F68", "U+1F69", "U+1F6A", "U+1F6B", "U+1F6C", "U+1F6D", "U+1F6E", "U+1F6F", "U+1F88",
       "U+1F89", "U+1F8A", "U+1F8B", "U+1F8C", "U+1F8D", "U+1F8E", "U+1F8F", "U+1F98", "U+1F99",
       "U+1F9A", "U+1F9B", "U+1F9C", "U+1F9D", "U+1F9E", "U+1F9F", "U+1FA8", "U+1FA9", "U+1FAA",
       "U+1FAB", "U+1FAC", "U+1FAD", "U+1FAE", "U+1FAF", "U+1FB8", "U+1FB9", "U+1FBA", "U+1FBB",
       "U+1FBC", "U+1FC8", "U+1FC9", "U+1FCA", "U+1FCB", "U+1FCC", "U+1FD8", "U+1FD9", "U+1FDA",
       "U+1FDB", "U+1FE8", "U+1FE9", "U+1FEA", "U+1FEB", "U+1FEC", "U+1FF8", "U+1FF9", "U+1FFA",
       "U+1FFB", "U+1FFC", "U+2126", "U+212A", "U+212B", "U+2132", "U+2160", "U+2161", "U+2162",
       "U+2163", "U+2164", "U+2165", "U+2166", "U+2167", "U+2168", "U+2169", "U+216A", "U+216B",
       "U+216C", "U+216D", "U+216E", "U+216F", "U+2183", "U+24B6", "U+24B7", "U+24B8", "U+24B9",
       "U+24BA", "U+24BB", "U+24BC", "U+24BD", "U+24BE", "U+24BF", "U+24C0", "U+24C1", "U+24C2",
       "U+24C3", "U+24C4", "U+24C5", "U+24C6", "U+24C7", "U+24C8", "U+24C9", "U+24CA", "U+24CB",
       "U+24CC", "U+24CD", "U+24CE", "U+24CF", "U+2C00", "U+2C01", "U+2C02", "U+2C03", "U+2C04",
       "U+2C05", "U+2C06", "U+2C07", "U+2C08", "U+2C09", "U+2C0A", "U+2C0B", "U+2C0C", "U+2C0D",
       "U+2C0E", "U+2C0F", "U+2C10", "U+2C11", "U+2C12", "U+2C13", "U+2C14", "U+2C15", "U+2C16",
       "U+2C17", "U+2C18", "U+2C19", "U+2C1A", "U+2C1B", "U+2C1C", "U+2C1D", "U+2C1E", "U+2C1F",
       "U+2C20", "U+2C21", "U+2C22", "U+2C23", "U+2C24", "U+2C25", "U+2C26", "U+2C27", "U+2C28",
       "U+2C29", "U+2C2A", "U+2C2B", "U+2C2C", "U+2C2D", "U+2C2E", "U+2C2F", "U+2C60", "U+2C62",
       "U+2C63", "U+2C64", "U+2C67", "U+2C69", "U+2C6B", "U+2C6D", "U+2C6E", "U+2C6F", "U+2C70",
       "U+2C72", "U+2C75", "U+2C7E", "U+2C7F", "U+2C80", "U+2C82", "U+2C84", "U+2C86", "U+2C88",
       "U+2C8A", "U+2C8C", "U+2C8E", "U+2C90", "U+2C92", "U+2C94", "U+2C96", "U+2C98", "U+2C9A",
       "U+2C9C", "U+2C9E", "U+2CA0", "U+2CA2", "U+2CA4", "U+2CA6", "U+2CA8", "U+2CAA", "U+2CAC",
       "U+2CAE", "U+2CB0", "U+2CB2", "U+2CB4", "U+2CB6", "U+2CB8", "U+2CBA", "U+2CBC", "U+2CBE",
       "U+2CC0", "U+2CC2", "U+2CC4", "U+2CC6", "U+2CC8", "U+2CCA", "U+2CCC", "U+2CCE", "U+2CD0",
       "U+2CD2", "U+2CD4", "U+2CD6", "U+2CD8", "U+2CDA", "U+2CDC", "U+2CDE", "U+2CE0", "U+2CE2",
       "U+2CEB", "U+2CED", "U+2CF2", "U+A640", "U+A642", "U+A644", "U+A646", "U+A648", "U+A64A",
       "U+A64C", "U+A64E", "U+A650", "U+A652", "U+A654", "U+A656", "U+A658", "U+A65A", "U+A65C",
       "U+A65E", "U+A660", "U+A662", "U+A664", "U+A666", "U+A668", "U+A66A", "U+A66C", "U+A680",
       "U+A682", "U+A684", "U+A686", "U+A688", "U+A68A", "U+A68C", "U+A68E", "U+A690", "U+A692",
       "U+A694", "U+A696", "U+A698", "U+A69A", "U+A722", "U+A724", "U+A726", "U+A728", "U+A72A",
       "U+A72C", "U+A72E", "U+A732", "U+A734", "U+A736", "U+A738", "U+A73A", "U+A73C", "U+A73E",
       "U+A740", "U+A742", "U+A744", "U+A746", "U+A748", "U+A74A", "U+A74C", "U+A74E", "U+A750",
       "U+A752", "U+A754", "U+A756", "U+A758", "U+A75A", "U+A75C", "U+A75E", "U+A760", "U+A762",
       "U+A764", "U+A766", "U+A768", "U+A76A", "U+A76C", "U+A76E", "U+A779", "U+A77B", "U+A77D",
       "U+A77E", "U+A780", "U+A782", "U+A784", "U+A786", "U+A78B", "U+A78D", "U+A790", "U+A792",
       "U+A796", "U+A798", "U+A79A", "U+A79C", "U+A79E", "U+A7A0", "U+A7A2", "U+A7A4", "U+A7A6",
       "U+A7A8", "U+A7AA", "U+A7AB", "U+A7AC", "U+A7AD", "U+A7AE", "U+A7B0", "U+A7B1", "U+A7B2",
       "U+A7B3", "U+A7B4", "U+A7B6", "U+A7B8", "U+A7BA", "U+A7BC", "U+A7BE", "U+A7C0", "U+A7C2",
       "U+A7C4", "U+A7C5", "U+A7C6", "U+A7C7", "U+A7C9", "U+A7CB", "U+A7CC", "U+A7CE", "U+A7D0",
       "U+A7D2", "U+A7D4", "U+A7D6", "U+A7D8", "U+A7DA", "U+A7DC", "U+A7F5", "U+FF21", "U+FF22",
       "U+FF23", "U+FF24", "U+FF25", "U+FF26", "U+FF27", "U+FF28", "U+FF29", "U+FF2A", "U+FF2B",
       "U+FF2C", "U+FF2D", "U+FF2E", "U+FF2F", "U+FF30", "U+FF31", "U+FF32", "U+FF33", "U+FF34",
       "U+FF35", "U+FF36", "U+FF37", "U+FF38", "U+FF39", "U+FF3A" >>
LowerCase ==
    << "a", "b", "c", "d", "e", "f", "g", "h", "i", "j", "k", "l", "m", "n", "o", "p", "q", "r",
       "s", "t", "u", "v", "w", "x", "y", "z", "U+00E0", "U+00E1", "U+00E2", "U+00E3", "U+00E4",
       "U+00E5", "U+00E6", "U+00E7", "U+00E8", "U+00E9", "U+00EA", "U+00EB", "U+00EC", "U+00ED",
       "U+00EE", "U+00EF", "U+00F0", "U+00F1", "U+00F2", "U+00F3", "U+00F4", "U+00F5", "U+00F6",
       "U+00F8", "U+00F9", "U+00FA", "U+00FB", "U+00FC", "U+00FD", "U+00FE", "U+0101", "U+0103",
       "U+0105", "U+0107", "U+0109", "U+010B", "U+010D", "U+010F", "U+0111", "U+0113", "U+0115",
       "U+0117", "U+0119", "U+011B", "U+011D", "U+011F", "U+0121", "U+0123", "U+0125", "U+0127",
       "U+0129", "U+012B", "U+012D", "U+012F", "U+0133", "U+0135", "U+0137", "U+013A", "U+013C",
       "U+013E", "U+0140", "U+0142", "U+0144", "U+0146", "U+0148", "U+014B", "U+014D", "U+014F",
       "U+0151", "U+0153", "U+0155", "U+0157", "U+0159", "U+015B", "U+015D", "U+015F", "U+0161",
       "U+0163", "U+0165", "U+0167", "U+0169", "U+016B", "U+016D", "U+016F", "U+0171", "U+0173",
       "U+0175", "U+0177", "U+00FF", "U+017A", "U+017C", "U+017E", "U+0253", "U+0183", "U+0185",
       "U+0254", "U+0188", "U+0256", "U+0257", "U+018C", "U+01DD", "U+0259", "U+025B", "U+0192",
       "U+0260", "U+0263", "U+0269", "U+0268", "U+0199", "U+026F", "U+0272", "U+0275", "U+01A1",
       "U+01A3", "U+01A5", "U+0280", "U+01A8", "U+0283", "U+01AD", "U+0288", "U+01B0", "U+028A",
       "U+028B", "U+01B4", "U+01B6", "U+0292", "U+01B9", "U+01BD", "U+01C6", "U+01C6", "U+01C9",
       "U+01C9", "U+01CC", "U+01CC", "U+01CE", "U+01D0", "U+01D2", "U+01D4", "U+01D6", "U+01D8",
       "U+01DA", "U+01DC", "U+01DF", "U+01E1", "U+01E3", "U+01E5", "U+01E7", "U+01E9", "U+01EB",
       "U+01ED", "U+01EF", "U+01F3", "U+01F3", "U+01F5", "U+0195", "U+01BF", "U+01F9", "U+01FB",
       "U+01FD", "U+01FF", "U+0201", "U+0203", "U+0205", "U+0207", "U+0209", "U+020B", "U+020D",
       "U+020F", "U+0211", "U+0213", "U+0215", "U+0217", "U+0219", "U+021B", "U+021D", "U+021F",
       "U+019E", "U+0223", "U+0225", "U+0227", "U+0229", "U+022B", "U+022D", "U+022F", "U+0231",
       "U+0233", "U+2C65", "U+023C", "U+019A", "U+2C66", "U+0242", "U+0180", "U+0289", "U+028C",
       "U+0247", "U+0249", "U+024B", "U+024D", "U+024F", "U+0371", "U+0373", "U+0377", "U+03F3",
       "U+03AC", "U+03AD", "U+03AE", "U+03AF", "U+03CC", "U+03CD", "U+03CE", "U+03B1", "U+03B2",
       "U+03B3", "U+03B4", "U+03B5", "U+03B6", "U+03B7", "U+03B8", "U+03B9", "U+03BA", "U+03BB",
       "U+03BC", "U+03BD", "U+03BE", "U+03BF", "U+03C0", "U+03C1", "U+03C3", "U+03C4", "U+03C5",
       "U+03C6", "U+03C7", "U+03C8", "U+03C9", "U+03CA", "U+03CB", "U+03D7", "U+03D9", "U+03DB",
       "U+03DD", "U+03DF", "U+03E1", "U+03E3", "U+03E5", "U+03E7", "U+03E9", "U+03EB", "U+03ED",
       "U+03EF", "U+03B8", "U+03F8", "U+03F2", "U+03FB", "U+037B", "U+037C", "U+037D", "U+0450",
       "U+0451", "U+0452", "U+0453", "U+0454", "U+0455", "U+0456", "U+0457", "U+0458", "U+0459",
       "U+045A", "U+045B", "U+045C", "U+045D", "U+045E", "U+045F", "U+0430", "U+0431", "U+0432",
       "U+0433", "U+0434", "U+0435", "U+0436", "U+0437", "U+0438", "U+0439", "U+043A", "U+043B",
       "U+043C", "U+043D", "U+043E", "U+043F", "U+0440", "U+0441", "U+0442", "U+0443", "U+0444",
       "U+0445", "U+0446", "U+0447", "U+0448", "U+0449", "U+044A", "U+044B", "U+044C", "U+044D",
       "U+044E", "U+044F", "U+0461", "U+0463", "U+0465", "U+0467", "U+0469", "U+046B", "U+046D",
       "U+046F", "U+0471", "U+0473", "U+0475", "U+0477", "U+0479", "U+047B", "U+047D", "U+047F",
       "U+0481", "U+048B", "U+048D", "U+048F", "U+0491", "U+0493", "U+0495", "U+0497", "U+0499",
       "U+049B", "U+049D", "U+049F", "U+04A1", "U+04A3", "U+04A5", "U+04A7", "U+04A9", "U+04AB",
       "U+04AD", "U+04AF", "U+04B1", "U+04B3", "U+04B5", "U+04B7", "U+04B9", "U+04BB", "U+04BD",
       "U+04BF", "U+04CF", "U+04C2", "U+04C4", "U+04C6", "U+04C8", "U+04CA", "U+04CC", "U+04CE",
       "U+04D1", "U+04D3", "U+04D5", "U+04D7", "U+04D9", "U+04DB", "U+04DD", "U+04DF", "U+04E1",
       "U+04E3", "U+04E5", "U+04E7", "U+04E9", "U+04EB", "U+04ED", "U+04EF", "U+04F1", "U+04F3",
       "U+04F5", "U+04F7", "U+04F9", "U+04FB", "U+04FD", "U+04FF", "U+0501", "U+0503", "U+0505",
       "U+0507", "U+0509", "U+050B", "U+050D", "U+050F", "U+0511", "U+0513", "U+0515", "U+0517",
       "U+0519", "U+051B", "U+051D", "U+051F", "U+0521", "U+0523", "U+0525", "U+0527", "U+0529",
       "U+052B", "U+052D", "U+052F", "U+0561", "U+0562", "U+0563", "U+0564", "U+0565", "U+0566",
       "U+0567", "U+0568", "U+0569", "U+056A", "U+056B", "U+056C", "U+056D", "U+056E", "U+056F",
       "U+0570", "U+0571", "U+0572", "U+0573", "U+0574", "U+0575", "U+0576", "U+0577", "U+0578",
       "U+0579", "U+057A", "U+057B", "U+057C", "U+057D", "U+057E", "U+057F", "U+0580", "U+0581",
       "U+0582", "U+0583", "U+0584", "U+0585", "U+0586", "U+2D00", "U+2D01", "U+2D02", "U+2D03",
       "U+2D04", "U+2D05", "U+2D06", "U+2D07", "U+2D08", "U+2D09", "U+2D0A", "U+2D0B", "U+2D0C",
       "U+2D0D", "U+2D0E", "U+2D0F", "U+2D10", "U+2D11", "U+2D12", "U+2D13", "U+2D14", "U+2D15",
       "U+2D16", "U+2D17", "U+2D18", "U+2D19", "U+2D1A", "U+2D1B", "U+2D1C", "U+2D1D", "U+2D1E",
       "U+2D1F", "U+2D20", "U+2D21", "U+2D22", "U+2D23", "U+2D24", "U+2D25", "U+2D27", "U+2D2D",
       "U+AB70", "U+AB71", "U+AB72", "U+AB73", "U+AB74", "U+AB75", "U+AB76", "U+AB77", "U+AB78",
       "U+AB79", "U+AB7A", "U+AB7B", "U+AB7C", "U+AB7D", "U+AB7E", "U+AB7F", "U+AB80", "U+AB81",
       "U+AB82", "U+AB83", "U+AB84", "U+AB85", "U+AB86", "U+AB87", "U+AB88", "U+AB89", "U+AB8A",
       "U+AB8B", "U+AB8C", "U+AB8D", "U+AB8E", "U+AB8F", "U+AB90", "U+AB91", "U+AB92", "U+AB93",
       "U+AB94", "U+AB95", "U+AB96", "U+AB97", "U+AB98", "U+AB99", "U+AB9A", "U+AB9B", "U+AB9C",
       "U+AB9D", "U+AB9E", "U+AB9F", "U+ABA0", "U+ABA1", "U+ABA2", "U+ABA3", "U+ABA4", "U+ABA5",
       "U+ABA6", "U+ABA7", "U+ABA8", "U+ABA9", "U+ABAA", "U+ABAB", "U+ABAC", "U+ABAD", "U+ABAE",
       "U+ABAF", "U+ABB0", "U+ABB1", "U+ABB2", "U+ABB3", "U+ABB4", "U+ABB5", "U+ABB6", "U+ABB7",
       "U+ABB8", "U+ABB9", "U+ABBA", "U+ABBB", "U+ABBC", "U+ABBD", "U+ABBE", "U+ABBF", "U+13F8",
       "U+13F9", "U+13FA", "U+13FB", "U+13FC", "U+13FD", "U+1C8A", "U+10D0", "U+10D1", "U+10D2",
       "U+10D3", "U+10D4", "U+10D5", "U+10D6", "U+10D7", "U+10D8", "U+10D9", "U+10DA", "U+10DB",
       "U+10DC", "U+10DD", "U+10DE", "U+10DF", "U+10E0", "U+10E1", "U+10E2", "U+10E3", "U+10E4",
       "U+10E5", "U+10E6", "U+10E7", "U+10E8", "U+10E9", "U+10EA", "U+10EB", "U+10EC", "U+10ED",
       "U+10EE", "U+10EF", "U+10F0", "U+10F1", "U+10F2", "U+10F3", "U+10F4", "U+10F5", "U+10F6",
       "U+10F7", "U+10F8", "U+10F9", "U+10FA", "U+10FD", "U+10FE", "U+10FF", "U+1E01", "U+1E03",
       "U+1E05", "U+1E07", "U+1E09", "U+1E0B", "U+1E0D", "U+1E0F", "U+1E11", "U+1E13", "U+1E15",
       "U+1E17", "U+1E19", "U+1E1B", "U+1E1D", "U+1E1F", "U+1E21", "U+1E23", "U+1E25", "U+1E27",
       "U+1E29", "U+1E2B", "U+1E2D", "U+1E2F", "U+1E31", "U+1E33", "U+1E35", "U+1E37", "U+1E39",
       "U+1E3B", "U+1E3D", "U+1E3F", "U+1E41", "U+1E43", "U+1E45", "U+1E47", "U+1E49", "U+1E4B",
       "U+1E4D", "U+1E4F", "U+1E51", "U+1E53", "U+1E55", "U+1E57", "U+1E59", "U+1E5B", "U+1E5D",
       "U+1E5F", "U+1E61", "U+1E63", "U+1E65", "U+1E67", "U+1E69", "U+1E6B", "U+1E6D", "U+1E6F",
       "U+1E71", "U+1E73", "U+1E75", "U+1E77", "U+1E79", "U+1E7B", "U+1E7D", "U+1E7F", "U+1E81",
       "U+1E83", "U+1E85", "U+1E87", "U+1E89", "U+1E8B", "U+1E8D", "U+1E8F", "U+1E91", "U+1E93",
       "U+1E95", "U+00DF", "U+1EA1", "U+1EA3", "U+1EA5", "U+1EA7", "U+1EA9", "U+1EAB", "U+1EAD",
       "U+1EAF", "U+1EB1", "U+1EB3", "U+1EB5", "U+1EB7", "U+1EB9", "U+1EBB", "U+1EBD", "U+1EBF",
       "U+1EC1", "U+1EC3", "U+1EC5", "U+1EC7", "U+1EC9", "U+1ECB", "U+1ECD", "U+1ECF", "U+1ED1",
       "U+1ED3", "U+1ED5", "U+1ED7", "U+1ED9", "U+1EDB", "U+1EDD", "U+1EDF", "U+1EE1", "U+1EE3",
       "U+1EE5", "U+1EE7", "U+1EE9", "U+1EEB", "U+1EED", "U+1EEF", "U+1EF1", "U+1EF3", "U+1EF5",
       "U+1EF7", "U+1EF9", "U+1EFB", "U+1EFD", "U+1EFF", "U+1F00", "U+1F01", "U+1F02", "U+1F03",
       "U+1F04", "U+1F05", "U+1F06", "U+1F07", "U+1F10", "U+1F11", "U+1F12", "U+1F13", "U+1F14",
       "U+1F15", "U+1F20", "U+1F21", "U+1F22", "U+1F23", "U+1F24", "U+1F25", "U+1F26", "U+1F27",
       "U+1F30", "U+1F31", "U+1F32", "U+1F33", "U+1F34", "U+1F35", "U+1F36", "U+1F37", "U+1F40",
       "U+1F41", "U+1F42", "U+1F43", "U+1F44", "U+1F45", "U+1F51", "U+1F53", "U+1F55", "U+1F57",
       "U+1F60", "U+1F61", "U+1F62", "U+1F63", "U+1F64", "U+1F65", "U+1F66", "U+1F67", "U+1F80",
       "U+1F81", "U+1F82", "U+1F83", "U+1F84", "U+1F85", "U+1F86", "U+1F87", "U+1F90", "U+1F91",
       "U+1F92", "U+1F93", "U+1F94", "U+1F95", "U+1F96", "U+1F97", "U+1FA0", "U+1FA1", "U+1FA2",
       "U+1FA3", "U+1FA4", "U+1FA5", "U+1FA6", "U+1FA7", "U+1FB0", "U+1FB1", "U+1F70", "U+1F71",
       "U+1FB3", "U+1F72", "U+1F73", "U+1F74", "U+1F75", "U+1FC3", "U+1FD0", "U+1FD1", "U+1F76",
       "U+1F77", "U+1FE0", "U+1FE1", "U+1F7A", "U+1F7B", "U+1FE5", "U+1F78", "U+1F79", "U+1F7C",
       "U+1F7D", "U+1FF3", "U+03C9", "k", "U+00E5", "U+214E", "U+2170", "U+2171", "U+2172",
       "U+2173", "U+2174", "U+2175", "U+2176", "U+2177", "U+2178", "U+2179", "U+217A", "U+217B",
       "U+217C", "U+217D", "U+217E", "U+217F", "U+2184", "U+24D0", "U+24D1", "U+24D2", "U+24D3",
       "U+24D4", "U+24D5", "U+24D6", "U+24D7", "U+24D8", "U+24D9", "U+24DA", "U+24DB", "U+24DC",
       "U+24DD", "U+24DE", "U+24DF", "U+24E0", "U+24E1", "U+24E2", "U+24E3", "U+24E4", "U+24E5",
       "U+24E6", "U+24E7", "U+24E8", "U+24E9", "U+2C30", "U+2C31", "U+2C32", "U+2C33", "U+2C34",
       "U+2C35", "U+2C36", "U+2C37", "U+2C38", "U+2C39", "U+2C3A", "U+2C3B", "U+2C3C", "U+2C3D",
       "U+2C3E", "U+2C3F", "U+2C40", "U+2C41", "U+2C42", "U+2C43", "U+2C44", "U+2C45", "U+2C46",
       "U+2C47", "U+2C48", "U+2C49", "U+2C4A", "U+2C4B", "U+2C4C", "U+2C4D", "U+2C4E", "U+2C4F",
       "U+2C50", "U+2C51", "U+2C52", "U+2C53", "U+2C54", "U+2C55", "U+2C56", "U+2C57", "U+2C58",
       "U+2C59", "U+2C5A", "U+2C5B", "U+2C5C", "U+2C5D", "U+2C5E", "U+2C5F", "U+2C61", "U+026B",
       "U+1D7D", "U+027D", "U+2C68", "U+2C6A", "U+2C6C", "U+0251", "U+0271", "U+0250", "U+0252",
       "U+2C73", "U+2C76", "U+023F", "U+0240", "U+2C81", "U+2C83", "U+2C85", "U+2C87", "U+2C89",
       "U+2C8B", "U+2C8D", "U+2C8F", "U+2C91", "U+2C93", "U+2C95", "U+2C97", "U+2C99", "U+2C9B",
       "U+2C9D", "U+2C9F", "U+2CA1", "U+2CA3", "U+2CA5", "U+2CA7", "U+2CA9", "U+2CAB", "U+2CAD",
       "U+2CAF", "U+2CB1", "U+2CB3", "U+2CB5", "U+2CB7", "U+2CB9", "U+2CBB", "U+2CBD", "U+2CBF",
       "U+2CC1", "U+2CC3", "U+2CC5", "U+2CC7", "U+2CC9", "U+2CCB", "U+2CCD", "U+2CCF", "U+2CD1",
       "U+2CD3", "U+2CD5", "U+2CD7", "U+2CD9", "U+2CDB", "U+2CDD", "U+2CDF", "U+2CE1", "U+2CE3",
       "U+2CEC", "U+2CEE", "U+2CF3", "U+A641", "U+A643", "U+A645", "U+A647", "U+A649", "U+A64B",
       "U+A64D", "U+A64F", "U+A651", "U+A653", "U+A655", "U+A657", "U+A659", "U+A65B", "U+A65D",
       "U+A65F", "U+A661", "U+A663", "U+A665", "U+A667", "U+A669", "U+A66B", "U+A66D", "U+A681",
       "U+A683", "U+A685", "U+A687", "U+A689", "U+A68B", "U+A68D", "U+A68F", "U+A691", "U+A693",
       "U+A695", "U+A697", "U+A699", "U+A69B", "U+A723", "U+A725", "U+A727", "U+A729", "U+A72B",
       "U+A72D", "U+A72F", "U+A733", "U+A735", "U+A737", "U+A739", "U+A73B", "U+A73D", "U+A73F",
       "U+A741", "U+A743", "U+A745", "U+A747", "U+A749", "U+A74B", "U+A74D", "U+A74F", "U+A751",
       "U+A753", "U+A755", "U+A757", "U+A759", "U+A75B", "U+A75D", "U+A75F", "U+A761", "U+A763",
       "U+A765", "U+A767", "U+A769", "U+A76B", "U+A76D", "U+A76F", "U+A77A", "U+A77C", "U+1D79",
       "U+A77F", "U+A781", "U+A783", "U+A785", "U+A787", "U+A78C", "U+0265", "U+A791", "U+A793",
       "U+A797", "U+A799", "U+A79B", "U+A79D", "U+A79F", "U+A7A1", "U+A7A3", "U+A7A5", "U+A7A7",
       "U+A7A9", "U+0266", "U+025C", "U+0261", "U+026C", "U+026A", "U+029E", "U+0287", "U+029D",
       "U+AB53", "U+A7B5", "U+A7B7", "U+A7B9", "U+A7BB", "U+A7BD", "U+A7BF", "U+A7C1", "U+A7C3",
       "U+A794", "U+0282", "U+1D8E", "U+A7C8", "U+A7CA", "U+0264", "U+A7CD", "U+A7CF", "U+A7D1",
       "U+A7D3", "U+A7D5", "U+A7D7", "U+A7D9", "U+A7DB", "U+019B", "U+A7F6", "U+FF41", "U+FF42",
       "U+FF43", "U+FF44", "U+FF45", "U+FF46", "U+FF47", "U+FF48", "U+FF49", "U+FF4A", "U+FF4B",
       "U+FF4C", "U+FF4D", "U+FF4E", "U+FF4F", "U+FF50", "U+FF51", "U+FF52", "U+FF53", "U+FF54",
       "U+FF55", "U+FF56", "U+FF57", "U+FF58", "U+FF59", "U+FF5A" >>

\* the same for the characters outside the BMP: a surrogate pair is written as the
\* string of its two code units, and lowering keeps the high surrogate, so that
\* LowerCasePairs[k] is the low surrogate UpperCasePairs[k] is lowered to
UpperCasePairs ==
    << "U+D801U+DC00", "U+D801U+DC01", "U+D801U+DC02", "U+D801U+DC03", "U+D801U+DC04",
       "U+D801U+DC05", "U+D801U+DC06", "U+D801U+DC07", "U+D801U+DC08", "U+D801U+DC09",
       "U+D801U+DC0A", "U+D801U+DC0B", "U+D801U+DC0C", "U+D801U+DC0D", "U+D801U+DC0E",
       "U+D801U+DC0F", "U+D801U+DC10", "U+D801U+DC11", "U+D801U+DC12", "U+D801U+DC13",
       "U+D801U+DC14", "U+D801U+DC15", "U+D801U+DC16", "U+D801U+DC17", "U+D801U+DC18",
       "U+D801U+DC19", "U+D801U+DC1A", "U+D801U+DC1B", "U+D801U+DC1C", "U+D801U+DC1D",
       "U+D801U+DC1E", "U+D801U+DC1F", "U+D801U+DC20", "U+D801U+DC21", "U+D801U+DC22",
       "U+D801U+DC23", "U+D801U+DC24", "U+D801U+DC25", "U+D801U+DC26", "U+D801U+DC27",
       "U+D801U+DCB0", "U+D801U+DCB1", "U+D801U+DCB2", "U+D801U+DCB3", "U+D801U+DCB4",
       "U+D801U+DCB5", "U+D801U+DCB6", "U+D801U+DCB7", "U+D801U+DCB8", "U+D801U+DCB9",
       "U+D801U+DCBA", "U+D801U+DCBB", "U+D801U+DCBC", "U+D801U+DCBD", "U+D801U+DCBE",
       "U+D801U+DCBF", "U+D801U+DCC0", "U+D801U+DCC1", "U+D801U+DCC2", "U+D801U+DCC3",
       "U+D801U+DCC4", "U+D801U+DCC5", "U+D801U+DCC6", "U+D801U+DCC7", "U+D801U+DCC8",
       "U+D801U+DCC9", "U+D801U+DCCA", "U+D801U+DCCB", "U+D801U+DCCC", "U+D801U+DCCD",
       "U+D801U+DCCE", "U+D801U+DCCF", "U+D801U+DCD0", "U+D801U+DCD1", "U+D801U+DCD2",
       "U+D801U+DCD3", "U+D801U+DD70", "U+D801U+DD71", "U+D801U+DD72", "U+D801U+DD73",
       "U+D801U+DD74", "U+D801U+DD75", "U+D801U+DD76", "U+D801U+DD77", "U+D801U+DD78",
       "U+D801U+DD79", "U+D801U+DD7A", "U+D801U+DD7C", "U+D801U+DD7D", "U+D801U+DD7E",
       "U+D801U+DD7F", "U+D801U+DD80", "U+D801U+DD81", "U+D801U+DD82", "U+D801U+DD83",
       "U+D801U+DD84", "U+D801U+DD85", "U+D801U+DD86", "U+D801U+DD87", "U+D801U+DD88",
       "U+D801U+DD89", "U+D801U+DD8A", "U+D801U+DD8C", "U+D801U+DD8D", "U+D801U+DD8E",
       "U+D801U+DD8F", "U+D801U+DD90", "U+D801U+DD91", "U+D801U+DD92", "U+D801U+DD94",
       "U+D801U+DD95", "U+D803U+DC80", "U+D803U+DC81", "U+D803U+DC82", "U+D803U+DC83",
       "U+D803U+DC84", "U+D803U+DC85", "U+D803U+DC86", "U+D803U+DC87", "U+D803U+DC88",
       "U+D803U+DC89", "U+D803U+DC8A", "U+D803U+DC8B", "U+D803U+DC8C", "U+D803U+DC8D",
       "U+D803U+DC8E", "U+D803U+DC8F", "U+D803U+DC90", "U+D803U+DC91", "U+D803U+DC92",
       "U+D803U+DC93", "U+D803U+DC94", "U+D803U+DC95", "U+D803U+DC96", "U+D803U+DC97",
       "U+D803U+DC98", "U+D803U+DC99", "U+D803U+DC9A", "U+D803U+DC9B", "U+D803U+DC9C",
       "U+D803U+DC9D", "U+D803U+DC9E", "U+D803U+DC9F", "U+D803U+DCA0", "U+D803U+DCA1",
       "U+D803U+DCA2", "U+D803U+DCA3", "U+D803U+DCA4", "U+D803U+DCA5", "U+D803U+DCA6",
       "U+D803U+DCA7", "U+D803U+DCA8", "U+D803U+DCA9", "U+D803U+DCAA", "U+D803U+DCAB",
       "U+D803U+DCAC", "U+D803U+DCAD", "U+D803U+DCAE", "U+D803U+DCAF", "U+D803U+DCB0",
       "U+D803U+DCB1", "U+D803U+DCB2", "U+D803U+DD50", "U+D803U+DD51", "U+D803U+DD52",
       "U+D803U+DD53", "U+D803U+DD54", "U+D803U+DD55", "U+D803U+DD56", "U+D803U+DD57",
       "U+D803U+DD58", "U+D803U+DD59", "U+D803U+DD5A", "U+D803U+DD5B", "U+D803U+DD5C",
       "U+D803U+DD5D", "U+D803U+DD5E", "U+D803U+DD5F", "U+D803U+DD60", "U+D803U+DD61",
       "U+D803U+DD62", "U+D803U+DD63", "U+D803U+DD64", "U+D803U+DD65", "U+D806U+DCA0",
       "U+D806U+DCA1", "U+D806U+DCA2", "U+D806U+DCA3", "U+D806U+DCA4", "U+D806U+DCA5",
       "U+D806U+DCA6", "U+D806U+DCA7", "U+D806U+DCA8", "U+D806U+DCA9", "U+D806U+DCAA",
       "U+D806U+DCAB", "U+D806U+DCAC", "U+D806U+DCAD", "U+D806U+DCAE", "U+D806U+DCAF",
       "U+D806U+DCB0", "U+D806U+DCB1", "U+D806U+DCB2", "U+D806U+DCB3", "U+D806U+DCB4",
       "U+D806U+DCB5", "U+D806U+DCB6", "U+D806U+DCB7", "U+D806U+DCB8", "U+D806U+DCB9",
       "U+D806U+DCBA", "U+D806U+DCBB", "U+D806U+DCBC", "U+D806U+DCBD", "U+D806U+DCBE",
       "U+D806U+DCBF", "U+D81BU+DE40", "U+D81BU+DE41", "U+D81BU+DE42", "U+D81BU+DE43",
       "U+D81BU+DE44", "U+D81BU+DE45", "U+D81BU+DE46", "U+D81BU+DE47", "U+D81BU+DE48",
       "U+D81BU+DE49", "U+D81BU+DE4A", "U+D81BU+DE4B", "U+D81BU+DE4C", "U+D81BU+DE4D",
       "U+D81BU+DE4E", "U+D81BU+DE4F", "U+D81BU+DE50", "U+D81BU+DE51", "U+D81BU+DE52",
       "U+D81BU+DE53", "U+D81BU+DE54", "U+D81BU+DE55", "U+D81BU+DE56", "U+D81BU+DE57",
       "U+D81BU+DE58", "U+D81BU+DE59", "U+D81BU+DE5A", "U+D81BU+DE5B", "U+D81BU+DE5C",
       "U+D81BU+DE5D", "U+D81BU+DE5E", "U+D81BU+DE5F", "U+D81BU+DEA0", "U+D81BU+DEA1",
       "U+D81BU+DEA2", "U+D81BU+DEA3", "U+D81BU+DEA4", "U+D81BU+DEA5", "U+D81BU+DEA6",
       "U+D81BU+DEA7", "U+D81BU+DEA8", "U+D81BU+DEA9", "U+D81BU+DEAA", "U+D81BU+DEAB",
       "U+D81BU+DEAC", "U+D81BU+DEAD", "U+D81BU+DEAE", "U+D81BU+DEAF", "U+D81BU+DEB0",
       "U+D81BU+DEB1", "U+D81BU+DEB2", "U+D81BU+DEB3", "U+D81BU+DEB4", "U+D81BU+DEB5",
       "U+D81BU+DEB6", "U+D81BU+DEB7", "U+D81BU+DEB8", "U+D83AU+DD00", "U+D83AU+DD01",
       "U+D83AU+DD02", "U+D83AU+DD03", "U+D83AU+DD04", "U+D83AU+DD05", "U+D83AU+DD06",
       "U+D83AU+DD07", "U+D83AU+DD08", "U+D83AU+DD09", "U+D83AU+DD0A", "U+D83AU+DD0B",
       "U+D83AU+DD0C", "U+D83AU+DD0D", "U+D83AU+DD0E", "U+D83AU+DD0F", "U+D83AU+DD10",
       "U+D83AU+DD11", "U+D83AU+DD12", "U+D83AU+DD13", "U+D83AU+DD14", "U+D83AU+DD15",
       "U+D83AU+DD16", "U+D83AU+DD17", "U+D83AU+DD18", "U+D83AU+DD19", "U+D83AU+DD1A",
       "U+D83AU+DD1B", "U+D83AU+DD1C", "U+D83AU+DD1D", "U+D83AU+DD1E", "U+D83AU+DD1F",
       "U+D83AU+DD20", "U+D83AU+DD21" >>
LowerCasePairs ==
    << "U+DC28", "U+DC29", "U+DC2A", "U+DC2B", "U+DC2C", "U+DC2D", "U+DC2E", "U+DC2F", "U+DC30",
       "U+DC31", "U+DC32", "U+DC33", "U+DC34", "U+DC35", "U+DC36", "U+DC37", "U+DC38", "U+DC39",
       "U+DC3A", "U+DC3B", "U+DC3C", "U+DC3D", "U+DC3E", "U+DC3F", "U+DC40", "U+DC41", "U+DC42",
       "U+DC43", "U+DC44", "U+DC45", "U+DC46", "U+DC47", "U+DC48", "U+DC49", "U+DC4A", "U+DC4B",
       "U+DC4C", "U+DC4D", "U+DC4E", "U+DC4F", "U+DCD8", "U+DCD9", "U+DCDA", "U+DCDB", "U+DCDC",
       "U+DCDD", "U+DCDE", "U+DCDF", "U+DCE0", "U+DCE1", "U+DCE2", "U+DCE3", "U+DCE4", "U+DCE5",
       "U+DCE6", "U+DCE7", "U+DCE8", "U+DCE9", "U+DCEA", "U+DCEB", "U+DCEC", "U+DCED", "U+DCEE",
       "U+DCEF", "U+DCF0", "U+DCF1", "U+DCF2", "U+DCF3", "U+DCF4", "U+DCF5", "U+DCF6", "U+DCF7",
       "U+DCF8", "U+DCF9", "U+DCFA", "U+DCFB", "U+DD97", "U+DD98", "U+DD99", "U+DD9A", "U+DD9B",
       "U+DD9C", "U+DD9D", "U+DD9E", "U+DD9F", "U+DDA0", "U+DDA1", "U+DDA3", "U+DDA4", "U+DDA5",
       "U+DDA6", "U+DDA7", "U+DDA8", "U+DDA9", "U+DDAA", "U+DDAB", "U+DDAC", "U+DDAD", "U+DDAE",
       "U+DDAF", "U+DDB0", "U+DDB1", "U+DDB3", "U+DDB4", "U+DDB5", "U+DDB6", "U+DDB7", "U+DDB8",
       "U+DDB9", "U+DDBB", "U+DDBC", "U+DCC0", "U+DCC1", "U+DCC2", "U+DCC3", "U+DCC4", "U+DCC5",
       "U+DCC6", "U+DCC7", "U+DCC8", "U+DCC9", "U+DCCA", "U+DCCB", "U+DCCC", "U+DCCD", "U+DCCE",
       "U+DCCF", "U+DCD0", "U+DCD1", "U+DCD2", "U+DCD3", "U+DCD4", "U+DCD5", "U+DCD6", "U+DCD7",
       "U+DCD8", "U+DCD9", "U+DCDA", "U+DCDB", "U+DCDC", "U+DCDD", "U+DCDE", "U+DCDF", "U+DCE0",
       "U+DCE1", "U+DCE2", "U+DCE3", "U+DCE4", "U+DCE5", "U+DCE6", "U+DCE7", "U+DCE8", "U+DCE9",
       "U+DCEA", "U+DCEB", "U+DCEC", "U+DCED", "U+DCEE", "U+DCEF", "U+DCF0", "U+DCF1", "U+DCF2",
       "U+DD70", "U+DD71", "U+DD72", "U+DD73", "U+DD74", "U+DD75", "U+DD76", "U+DD77", "U+DD78",
       "U+DD79", "U+DD7A", "U+DD7B", "U+DD7C", "U+DD7D", "U+DD7E", "U+DD7F", "U+DD80", "U+DD81",
       "U+DD82", "U+DD83", "U+DD84", "U+DD85", "U+DCC0", "U+DCC1", "U+DCC2", "U+DCC3", "U+DCC4",
       "U+DCC5", "U+DCC6", "U+DCC7", "U+DCC8", "U+DCC9", "U+DCCA", "U+DCCB", "U+DCCC", "U+DCCD",
       "U+DCCE", "U+DCCF", "U+DCD0", "U+DCD1", "U+DCD2", "U+DCD3", "U+DCD4", "U+DCD5", "U+DCD6",
       "U+DCD7", "U+DCD8", "U+DCD9", "U+DCDA", "U+DCDB", "U+DCDC", "U+DCDD", "U+DCDE", "U+DCDF",
       "U+DE60", "U+DE61", "U+DE62", "U+DE63", "U+DE64", "U+DE65", "U+DE66", "U+DE67", "U+DE68",
       "U+DE69", "U+DE6A", "U+DE6B", "U+DE6C", "U+DE6D", "U+DE6E", "U+DE6F", "U+DE70", "U+DE71",
       "U+DE72", "U+DE73", "U+DE74", "U+DE75", "U+DE76", "U+DE77", "U+DE78", "U+DE79", "U+DE7A",
       "U+DE7B", "U+DE7C", "U+DE7D", "U+DE7E", "U+DE7F", "U+DEBB", "U+DEBC", "U+DEBD", "U+DEBE",
       "U+DEBF", "U+DEC0", "U+DEC1", "U+DEC2", "U+DEC3", "U+DEC4", "U+DEC5", "U+DEC6", "U+DEC7",
       "U+DEC8", "U+DEC9", "U+DECA", "U+DECB", "U+DECC", "U+DECD", "U+DECE", "U+DECF", "U+DED0",
       "U+DED1", "U+DED2", "U+DED3", "U+DD22", "U+DD23", "U+DD24", "U+DD25", "U+DD26", "U+DD27",
       "U+DD28", "U+DD29", "U+DD2A", "U+DD2B", "U+DD2C", "U+DD2D", "U+DD2E", "U+DD2F", "U+DD30",
       "U+DD31", "U+DD32", "U+DD33", "U+DD34", "U+DD35", "U+DD36", "U+DD37", "U+DD38", "U+DD39",
       "U+DD3A", "U+DD3B", "U+DD3C", "U+DD3D", "U+DD3E", "U+DD3F", "U+DD40", "U+DD41", "U+DD42",
       "U+DD43" >>

\* the characters with the property Case_Ignorable, and those with the property
\* Cased that are not Case_Ignorable: code units of the BMP, and surrogate pairs
CaseIgnorable ==
    { "'", ".", ":", "^", "U+0060", "U+00A8", "U+00AD", "U+00AF", "U+00B4", "U+00B7", "U+00B8",
       "U+02B0", "U+02B1", "U+02B2", "U+02B3", "U+02B4", "U+02B5", "U+02B6", "U+02B7", "U+02B8",
       "U+02B9", "U+02BA", "U+02BB", "U+02BC", "U+02BD", "U+02BE", "U+02BF", "U+02C0", "U+02C1",
       "U+02C2", "U+02C3", "U+02C4", "U+02C5", "U+02C6", "U+02C7", "U+02C8", "U+02C9", "U+02CA",
       "U+02CB", "U+02CC", "U+02CD", "U+02CE", "U+02CF", "U+02D0", "U+02D1", "U+02D2", "U+02D3",
       "U+02D4", "U+02D5", "U+02D6", "U+02D7", "U+02D8", "U+02D9", "U+02DA", "U+02DB", "U+02DC",
       "U+02DD", "U+02DE", "U+02DF", "U+02E0", "U+02E1", "U+02E2", "U+02E3", "U+02E4", "U+02E5",
       "U+02E6", "U+02E7", "U+02E8", "U+02E9", "U+02EA", "U+02EB", "U+02EC", "U+02ED", "U+02EE",
       "U+02EF", "U+02F0", "U+02F1", "U+02F2", "U+02F3", "U+02F4", "U+02F5", "U+02F6", "U+02F7",
       "U+02F8", "U+02F9", "U+02FA", "U+02FB", "U+02FC", "U+02FD", "U+02FE", "U+02FF", "U+0300",
       "U+0301", "U+0302", "U+0303", "U+0304", "U+0305", "U+0306", "U+0307", "U+0308", "U+0309",
       "U+030A", "U+030B", "U+030C", "U+030D", "U+030E", "U+030F", "U+0310", "U+0311", "U+0312",
       "U+0313", "U+0314", "U+0315", "U+0316", "U+0317", "U+0318", "U+0319", "U+031A", "U+031B",
       "U+031C", "U+031D", "U+031E", "U+031F", "U+0320", "U+0321", "U+0322", "U+0323", "U+0324",
       "U+0325", "U+0326", "U+0327", "U+0328", "U+0329", "U+032A", "U+032B", "U+032C", "U+032D",
       "U+032E", "U+032F", "U+0330", "U+0331", "U+0332", "U+0333", "U+0334", "U+0335", "U+0336",
       "U+0337", "U+0338", "U+0339", "U+033A", "U+033B", "U+033C", "U+033D", "U+033E", "U+033F",
       "U+0340", "U+0341", "U+0342", "U+0343", "U+0344", "U+0345", "U+0346", "U+0347", "U+0348",
       "U+0349", "U+034A", "U+034B", "U+034C", "U+034D", "U+034E", "U+034F", "U+0350", "U+0351",
       "U+0352", "U+0353", "U+0354", "U+0355", "U+0356", "U+0357", "U+0358", "U+0359", "U+035A",
       "U+035B", "U+035C", "U+035D", "U+035E", "U+035F", "U+0360", "U+0361", "U+0362", "U+0363",
       "U+0364", "U+0365", "U+0366", "U+0367", "U+0368", "U+0369", "U+036A", "U+036B", "U+036C",
       "U+036D", "U+036E", "U+036F", "U+0374", "U+0375", "U+037A", "U+0384", "U+0385", "U+0387",
       "U+0483", "U+0484", "U+0485", "U+0486", "U+0487", "U+0488", "U+0489", "U+0559", "U+055F",
       "U+0591", "U+0592", "U+0593", "U+0594", "U+0595", "U+0596", "U+0597", "U+0598", "U+0599",
       "U+059A", "U+059B", "U+059C", "U+059D", "U+059E", "U+059F", "U+05A0", "U+05A1", "U+05A2",
       "U+05A3", "U+05A4", "U+05A5", "U+05A6", "U+05A7", "U+05A8", "U+05A9", "U+05AA", "U+05AB",
       "U+05AC", "U+05AD", "U+05AE", "U+05AF", "U+05B0", "U+05B1", "U+05B2", "U+05B3", "U+05B4",
       "U+05B5", "U+05B6", "U+05B7", "U+05B8", "U+05B9", "U+05BA", "U+05BB", "U+05BC", "U+05BD",
       "U+05BF", "U+05C1", "U+05C2", "U+05C4", "U+05C5", "U+05C7", "U+05F4", "U+0600", "U+0601",
       "U+0602", "U+0603", "U+0604", "U+0605", "U+0610", "U+0611", "U+0612", "U+0613", "U+0614",
       "U+0615", "U+0616", "U+0617", "U+0618", "U+0619", "U+061A", "U+061C", "U+0640", "U+064B",
       "U+064C", "U+064D", "U+064E", "U+064F", "U+0650", "U+0651", "U+0652", "U+0653", "U+0654",
       "U+0655", "U+0656", "U+0657", "U+0658", "U+0659", "U+065A", "U+065B", "U+065C", "U+065D",
       "U+065E", "U+065F", "U+0670", "U+06D6", "U+06D7", "U+06D8", "U+06D9", "U+06DA", "U+06DB",
       "U+06DC", "U+06DD", "U+06DF", "U+06E0", "U+06E1", "U+06E2", "U+06E3", "U+06E4", "U+06E5",
       "U+06E6", "U+06E7", "U+06E8", "U+06EA", "U+06EB", "U+06EC", "U+06ED", "U+070F", "U+0711",
       "U+0730", "U+0731", "U+0732", "U+0733", "U+0734", "U+0735", "U+0736", "U+0737", "U+0738",
       "U+0739", "U+073A", "U+073B", "U+073C", "U+073D", "U+073E", "U+073F", "U+0740", "U+0741",
       "U+0742", "U+0743", "U+0744", "U+0745", "U+0746", "U+0747", "U+0748", "U+0749", "U+074A",
       "U+07A6", "U+07A7", "U+07A8", "U+07A9", "U+07AA", "U+07AB", "U+07AC", "U+07AD", "U+07AE",
       "U+07AF", "U+07B0", "U+07EB", "U+07EC", "U+07ED", "U+07EE", "U+07EF", "U+07F0", "U+07F1",
       "U+07F2", "U+07F3", "U+07F4", "U+07F5", "U+07FA", "U+07FD", "U+0816", "U+0817", "U+0818",
       "U+0819", "U+081A", "U+081B", "U+081C", "U+081D", "U+081E", "U+081F", "U+0820", "U+0821",
       "U+0822", "U+0823", "U+0824", "U+0825", "U+0826", "U+0827", "U+0828", "U+0829", "U+082A",
       "U+082B", "U+082C", "U+082D", "U+0859", "U+085A", "U+085B", "U+0888", "U+0890", "U+0891",
       "U+0897", "U+0898", "U+0899", "U+089A", "U+089B", "U+089C", "U+089D", "U+089E", "U+089F",
       "U+08C9", "U+08CA", "U+08CB", "U+08CC", "U+08CD", "U+08CE", "U+08CF", "U+08D0", "U+08D1",
       "U+08D2", "U+08D3", "U+08D4", "U+08D5", "U+08D6", "U+08D7", "U+08D8", "U+08D9", "U+08DA",
       "U+08DB", "U+08DC", "U+08DD", "U+08DE", "U+08DF", "U+08E0", "U+08E1", "U+08E2", "U+08E3",
       "U+08E4", "U+08E5", "U+08E6", "U+08E7", "U+08E8", "U+08E9", "U+08EA", "U+08EB", "U+08EC",
       "U+08ED", "U+08EE", "U+08EF", "U+08F0", "U+08F1", "U+08F2", "U+08F3", "U+08F4", "U+08F5",
       "U+08F6", "U+08F7", "U+08F8", "U+08F9", "U+08FA", "U+08FB", "U+08FC", "U+08FD", "U+08FE",
       "U+08FF", "U+0900", "U+0901", "U+0902", "U+093A", "U+093C", "U+0941", "U+0942", "U+0943",
       "U+0944", "U+0945", "U+0946", "U+0947", "U+0948", "U+094D", "U+0951", "U+0952", "U+0953",
       "U+0954", "U+0955", "U+0956", "U+0957", "U+0962", "U+0963", "U+0971", "U+0981", "U+09BC",
       "U+09C1", "U+09C2", "U+09C3", "U+09C4", "U+09CD", "U+09E2", "U+09E3", "U+09FE", "U+0A01",
       "U+0A02", "U+0A3C", "U+0A41", "U+0A42", "U+0A47", "U+0A48", "U+0A4B", "U+0A4C", "U+0A4D",
       "U+0A51", "U+0A70", "U+0A71", "U+0A75", "U+0A81", "U+0A82", "U+0ABC", "U+0AC1", "U+0AC2",
       "U+0AC3", "U+0AC4", "U+0AC5", "U+0AC7", "U+0AC8", "U+0ACD", "U+0AE2", "U+0AE3", "U+0AFA",
       "U+0AFB", "U+0AFC", "U+0AFD", "U+0AFE", "U+0AFF", "U+0B01", "U+0B3C", "U+0B3F", "U+0B41",
       "U+0B42", "U+0B43", "U+0B44", "U+0B4D", "U+0B55", "U+0B56", "U+0B62", "U+0B63", "U+0B82",
       "U+0BC0", "U+0BCD", "U+0C00", "U+0C04", "U+0C3C", "U+0C3E", "U+0C3F", "U+0C40", "U+0C46",
       "U+0C47", "U+0C48", "U+0C4A", "U+0C4B", "U+0C4C", "U+0C4D", "U+0C55", "U+0C56", "U+0C62",
       "U+0C63", "U+0C81", "U+0CBC", "U+0CBF", "U+0CC6", "U+0CCC", "U+0CCD", "U+0CE2", "U+0CE3",
       "U+0D00", "U+0D01", "U+0D3B", "U+0D3C", "U+0D41", "U+0D42", "U+0D43", "U+0D44", "U+0D4D",
       "U+0D62", "U+0D63", "U+0D81", "U+0DCA", "U+0DD2", "U+0DD3", "U+0DD4", "U+0DD6", "U+0E31",
       "U+0E34", "U+0E35", "U+0E36", "U+0E37", "U+0E38", "U+0E39", "U+0E3A", "U+0E46", "U+0E47",
       "U+0E48", "U+0E49", "U+0E4A", "U+0E4B", "U+0E4C", "U+0E4D", "U+0E4E", "U+0EB1", "U+0EB4",
       "U+0EB5", "U+0EB6", "U+0EB7", "U+0EB8", "U+0EB9", "U+0EBA", "U+0EBB", "U+0EBC", "U+0EC6",
       "U+0EC8", "U+0EC9", "U+0ECA", "U+0ECB", "U+0ECC", "U+0ECD", "U+0ECE", "U+0F18", "U+0F19",
       "U+0F35", "U+0F37", "U+0F39", "U+0F71", "U+0F72", "U+0F73", "U+0F74", "U+0F75", "U+0F76",
       "U+0F77", "U+0F78", "U+0F79", "U+0F7A", "U+0F7B", "U+0F7C", "U+0F7D", "U+0F7E", "U+0F80",
       "U+0F81", "U+0F82", "U+0F83", "U+0F84", "U+0F86", "U+0F87", "U+0F8D", "U+0F8E", "U+0F8F",
       "U+0F90", "U+0F91", "U+0F92", "U+0F93", "U+0F94", "U+0F95", "U+0F96", "U+0F97", "U+0F99",
       "U+0F9A", "U+0F9B", "U+0F9C", "U+0F9D", "U+0F9E", "U+0F9F", "U+0FA0", "U+0FA1", "U+0FA2",
       "U+0FA3", "U+0FA4", "U+0FA5", "U+0FA6", "U+0FA7", "U+0FA8", "U+0FA9", "U+0FAA", "U+0FAB",
       "U+0FAC", "U+0FAD", "U+0FAE", "U+0FAF", "U+0FB0", "U+0FB1", "U+0FB2", "U+0FB3", "U+0FB4",
       "U+0FB5", "U+0FB6", "U+0FB7", "U+0FB8", "U+0FB9", "U+0FBA", "U+0FBB", "U+0FBC", "U+0FC6",
       "U+102D", "U+102E", "U+102F", "U+1030", "U+1032", "U+1033", "U+1034", "U+1035", "U+1036",
       "U+1037", "U+1039", "U+103A", "U+103D", "U+103E", "U+1058", "U+1059", "U+105E", "U+105F",
       "U+1060", "U+1071", "U+1072", "U+1073", "U+1074", "U+1082", "U+1085", "U+1086", "U+108D",
       "U+109D", "U+10FC", "U+135D", "U+135E", "U+135F", "U+1712", "U+1713", "U+1714", "U+1732",
       "U+1733", "U+1752", "U+1753", "U+1772", "U+1773", "U+17B4", "U+17B5", "U+17B7", "U+17B8",
       "U+17B9", "U+17BA", "U+17BB", "U+17BC", "U+17BD", "U+17C6", "U+17C9", "U+17CA", "U+17CB",
       "U+17CC", "U+17CD", "U+17CE", "U+17CF", "U+17D0", "U+17D1", "U+17D2", "U+17D3", "U+17D7",
       "U+17DD", "U+180B", "U+180C", "U+180D", "U+180E", "U+180F", "U+1843", "U+1885", "U+1886",
       "U+18A9", "U+1920", "U+1921", "U+1922", "U+1927", "U+1928", "U+1932", "U+1939", "U+193A",
       "U+193B", "U+1A17", "U+1A18", "U+1A1B", "U+1A56", "U+1A58", "U+1A59", "U+1A5A", "U+1A5B",
       "U+1A5C", "U+1A5D", "U+1A5E", "U+1A60", "U+1A62", "U+1A65", "U+1A66", "U+1A67", "U+1A68",
       "U+1A69", "U+1A6A", "U+1A6B", "U+1A6C", "U+1A73", "U+1A74", "U+1A75", "U+1A76", "U+1A77",
       "U+1A78", "U+1A79", "U+1A7A", "U+1A7B", "U+1A7C", "U+1A7F", "U+1AA7", "U+1AB0", "U+1AB1",
       "U+1AB2", "U+1AB3", "U+1AB4", "U+1AB5", "U+1AB6", "U+1AB7", "U+1AB8", "U+1AB9", "U+1ABA",
       "U+1ABB", "U+1ABC", "U+1ABD", "U+1ABE", "U+1ABF", "U+1AC0", "U+1AC1", "U+1AC2", "U+1AC3",
       "U+1AC4", "U+1AC5", "U+1AC6", "U+1AC7", "U+1AC8", "U+1AC9", "U+1ACA", "U+1ACB", "U+1ACC",
       "U+1ACD", "U+1ACE", "U+1ACF", "U+1AD0", "U+1AD1", "U+1AD2", "U+1AD3", "U+1AD4", "U+1AD5",
       "U+1AD6", "U+1AD7", "U+1AD8", "U+1AD9", "U+1ADA", "U+1ADB", "U+1ADC", "U+1ADD", "U+1AE0",
       "U+1AE1", "U+1AE2", "U+1AE3", "U+1AE4", "U+1AE5", "U+1AE6", "U+1AE7", "U+1AE8", "U+1AE9",
       "U+1AEA", "U+1AEB", "U+1B00", "U+1B01", "U+1B02", "U+1B03", "U+1B34", "U+1B36", "U+1B37",
       "U+1B38", "U+1B39", "U+1B3A", "U+1B3C", "U+1B42", "U+1B6B", "U+1B6C", "U+1B6D", "U+1B6E",
       "U+1B6F", "U+1B70", "U+1B71", "U+1B72", "U+1B73", "U+1B80", "U+1B81", "U+1BA2", "U+1BA3",
       "U+1BA4", "U+1BA5", "U+1BA8", "U+1BA9", "U+1BAB", "U+1BAC", "U+1BAD", "U+1BE6", "U+1BE8",
       "U+1BE9", "U+1BED", "U+1BEF", "U+1BF0", "U+1BF1", "U+1C2C", "U+1C2D", "U+1C2E", "U+1C2F",
       "U+1C30", "U+1C31", "U+1C32", "U+1C33", "U+1C36", "U+1C37", "U+1C78", "U+1C79", "U+1C7A",
       "U+1C7B", "U+1C7C", "U+1C7D", "U+1CD0", "U+1CD1", "U+1CD2", "U+1CD4", "U+1CD5", "U+1CD6",
       "U+1CD7", "U+1CD8", "U+1CD9", "U+1CDA", "U+1CDB", "U+1CDC", "U+1CDD", "U+1CDE", "U+1CDF",
       "U+1CE0", "U+1CE2", "U+1CE3", "U+1CE4", "U+1CE5", "U+1CE6", "U+1CE7", "U+1CE8", "U+1CED",
       "U+1CF4", "U+1CF8", "U+1CF9", "U+1D2C", "U+1D2D", "U+1D2E", "U+1D2F", "U+1D30", "U+1D31",
       "U+1D32", "U+1D33", "U+1D34", "U+1D35", "U+1D36", "U+1D37", "U+1D38", "U+1D39", "U+1D3A",
       "U+1D3B", "U+1D3C", "U+1D3D", "U+1D3E", "U+1D3F", "U+1D40", "U+1D41", "U+1D42", "U+1D43",
       "U+1D44", "U+1D45", "U+1D46", "U+1D47", "U+1D48", "U+1D49", "U+1D4A", "U+1D4B", "U+1D4C",
       "U+1D4D", "U+1D4E", "U+1D4F", "U+1D50", "U+1D51", "U+1D52", "U+1D53", "U+1D54", "U+1D55",
       "U+1D56", "U+1D57", "U+1D58", "U+1D59", "U+1D5A", "U+1D5B", "U+1D5C", "U+1D5D", "U+1D5E",
       "U+1D5F", "U+1D60", "U+1D61", "U+1D62", "U+1D63", "U+1D64", "U+1D65", "U+1D66", "U+1D67",
       "U+1D68", "U+1D69", "U+1D6A", "U+1D78", "U+1D9B", "U+1D9C", "U+1D9D", "U+1D9E", "U+1D9F",
       "U+1DA0", "U+1DA1", "U+1DA2", "U+1DA3", "U+1DA4", "U+1DA5", "U+1DA6", "U+1DA7", "U+1DA8",
       "U+1DA9", "U+1DAA", "U+1DAB", "U+1DAC", "U+1DAD", "U+1DAE", "U+1DAF", "U+1DB0", "U+1DB1",
       "U+1DB2", "U+1DB3", "U+1DB4", "U+1DB5", "U+1DB6", "U+1DB7", "U+1DB8", "U+1DB9", "U+1DBA",
       "U+1DBB", "U+1DBC", "U+1DBD", "U+1DBE", "U+1DBF", "U+1DC0", "U+1DC1", "U+1DC2", "U+1DC3",
       "U+1DC4", "U+1DC5", "U+1DC6", "U+1DC7", "U+1DC8", "U+1DC9", "U+1DCA", "U+1DCB", "U+1DCC",
       "U+1DCD", "U+1DCE", "U+1DCF", "U+1DD0", "U+1DD1", "U+1DD2", "U+1DD3", "U+1DD4", "U+1DD5",
       "U+1DD6", "U+1DD7", "U+1DD8", "U+1DD9", "U+1DDA", "U+1DDB", "U+1DDC", "U+1DDD", "U+1DDE",
       "U+1DDF", "U+1DE0", "U+1DE1", "U+1DE2", "U+1DE3", "U+1DE4", "U+1DE5", "U+1DE6", "U+1DE7",
       "U+1DE8", "U+1DE9", "U+1DEA", "U+1DEB", "U+1DEC", "U+1DED", "U+1DEE", "U+1DEF", "U+1DF0",
       "U+1DF1", "U+1DF2", "U+1DF3", "U+1DF4", "U+1DF5", "U+1DF6", "U+1DF7", "U+1DF8", "U+1DF9",
       "U+1DFA", "U+1DFB", "U+1DFC", "U+1DFD", "U+1DFE", "U+1DFF", "U+1FBD", "U+1FBF", "U+1FC0",
       "U+1FC1", "U+1FCD", "U+1FCE", "U+1FCF", "U+1FDD", "U+1FDE", "U+1FDF", "U+1FED", "U+1FEE",
       "U+1FEF", "U+1FFD", "U+1FFE", "U+200B", "U+200C", "U+200D", "U+200E", "U+200F", "U+2018",
       "U+2019", "U+2024", "U+2027", "U+202A", "U+202B", "U+202C", "U+202D", "U+202E", "U+2060",
       "U+2061", "U+2062", "U+2063", "U+2064", "U+2066", "U+2067", "U+2068", "U+2069", "U+206A",
       "U+206B", "U+206C", "U+206D", "U+206E", "U+206F", "U+2071", "U+207F", "U+2090", "U+2091",
       "U+2092", "U+2093", "U+2094", "U+2095", "U+2096", "U+2097", "U+2098", "U+2099", "U+209A",
       "U+209B", "U+209C", "U+20D0", "U+20D1", "U+20D2", "U+20D3", "U+20D4", "U+20D5", "U+20D6",
       "U+20D7", "U+20D8", "U+20D9", "U+20DA", "U+20DB", "U+20DC", "U+20DD", "U+20DE", "U+20DF",
       "U+20E0", "U+20E1", "U+20E2", "U+20E3", "U+20E4", "U+20E5", "U+20E6", "U+20E7", "U+20E8",
       "U+20E9", "U+20EA", "U+20EB", "U+20EC", "U+20ED", "U+20EE", "U+20EF", "U+20F0", "U+2C7C",
       "U+2C7D", "U+2CEF", "U+2CF0", "U+2CF1", "U+2D6F", "U+2D7F", "U+2DE0", "U+2DE1", "U+2DE2",
       "U+2DE3", "U+2DE4", "U+2DE5", "U+2DE6", "U+2DE7", "U+2DE8", "U+2DE9", "U+2DEA", "U+2DEB",
       "U+2DEC", "U+2DED", "U+2DEE", "U+2DEF", "U+2DF0", "U+2DF1", "U+2DF2", "U+2DF3", "U+2DF4",
       "U+2DF5", "U+2DF6", "U+2DF7", "U+2DF8", "U+2DF9", "U+2DFA", "U+2DFB", "U+2DFC", "U+2DFD",
       "U+2DFE", "U+2DFF", "U+2E2F", "U+3005", "U+302A", "U+302B", "U+302C", "U+302D", "U+3031",
       "U+3032", "U+3033", "U+3034", "U+3035", "U+303B", "U+3099", "U+309A", "U+309B", "U+309C",
       "U+309D", "U+309E", "U+30FC", "U+30FD", "U+30FE", "U+A015", "U+A4F8", "U+A4F9", "U+A4FA",
       "U+A4FB", "U+A4FC", "U+A4FD", "U+A60C", "U+A66F", "U+A670", "U+A671", "U+A672", "U+A674",
       "U+A675", "U+A676", "U+A677", "U+A678", "U+A679", "U+A67A", "U+A67B", "U+A67C", "U+A67D",
       "U+A67F", "U+A69C", "U+A69D", "U+A69E", "U+A69F", "U+A6F0", "U+A6F1", "U+A700", "U+A701",
       "U+A702", "U+A703", "U+A704", "U+A705", "U+A706", "U+A707", "U+A708", "U+A709", "U+A70A",
       "U+A70B", "U+A70C", "U+A70D", "U+A70E", "U+A70F", "U+A710", "U+A711", "U+A712", "U+A713",
       "U+A714", "U+A715", "U+A716", "U+A717", "U+A718", "U+A719", "U+A71A", "U+A71B", "U+A71C",
       "U+A71D", "U+A71E", "U+A71F", "U+A720", "U+A721", "U+A770", "U+A788", "U+A789", "U+A78A",
       "U+A7F1", "U+A7F2", "U+A7F3", "U+A7F4", "U+A7F8", "U+A7F9", "U+A802", "U+A806", "U+A80B",
       "U+A825", "U+A826", "U+A82C", "U+A8C4", "U+A8C5", "U+A8E0", "U+A8E1", "U+A8E2", "U+A8E3",
       "U+A8E4", "U+A8E5", "U+A8E6", "U+A8E7", "U+A8E8", "U+A8E9", "U+A8EA", "U+A8EB", "U+A8EC",
       "U+A8ED", "U+A8EE", "U+A8EF", "U+A8F0", "U+A8F1", "U+A8FF", "U+A926", "U+A927", "U+A928",
       "U+A929", "U+A92A", "U+A92B", "U+A92C", "U+A92D", "U+A947", "U+A948", "U+A949", "U+A94A",
       "U+A94B", "U+A94C", "U+A94D", "U+A94E", "U+A94F", "U+A950", "U+A951", "U+A980", "U+A981",
       "U+A982", "U+A9B3", "U+A9B6", "U+A9B7", "U+A9B8", "U+A9B9", "U+A9BC", "U+A9BD", "U+A9CF",
       "U+A9E5", "U+A9E6", "U+AA29", "U+AA2A", "U+AA2B", "U+AA2C", "U+AA2D", "U+AA2E", "U+AA31",
       "U+AA32", "U+AA35", "U+AA36", "U+AA43", "U+AA4C", "U+AA70", "U+AA7C", "U+AAB0", "U+AAB2",
       "U+AAB3", "U+AAB4", "U+AAB7", "U+AAB8", "U+AABE", "U+AABF", "U+AAC1", "U+AADD", "U+AAEC",
       "U+AAED", "U+AAF3", "U+AAF4", "U+AAF6", "U+AB5B", "U+AB5C", "U+AB5D", "U+AB5E", "U+AB5F",
       "U+AB69", "U+AB6A", "U+AB6B", "U+ABE5", "U+ABE8", "U+ABED", "U+FB1E", "U+FBB2", "U+FBB3",
       "U+FBB4", "U+FBB5", "U+FBB6", "U+FBB7", "U+FBB8", "U+FBB9", "U+FBBA", "U+FBBB", "U+FBBC",
       "U+FBBD", "U+FBBE", "U+FBBF", "U+FBC0", "U+FBC1", "U+FBC2", "U+FE00", "U+FE01", "U+FE02",
       "U+FE03", "U+FE04", "U+FE05", "U+FE06", "U+FE07", "U+FE08", "U+FE09", "U+FE0A", "U+FE0B",
       "U+FE0C", "U+FE0D", "U+FE0E", "U+FE0F", "U+FE13", "U+FE20", "U+FE21", "U+FE22", "U+FE23",
       "U+FE24", "U+FE25", "U+FE26", "U+FE27", "U+FE28", "U+FE29", "U+FE2A", "U+FE2B", "U+FE2C",
       "U+FE2D", "U+FE2E", "U+FE2F", "U+FE52", "U+FE55", "U+FEFF", "U+FF07", "U+FF0E", "U+FF1A",
       "U+FF3E", "U+FF40", "U+FF70", "U+FF9E", "U+FF9F", "U+FFE3", "U+FFF9", "U+FFFA", "U+FFFB" }
CasedLetters ==
    { "A", "B", "C", "D", "E", "F", "G", "H", "I", "J", "K", "L", "M", "N", "O", "P", "Q", "R",
       "S", "T", "U", "V", "W", "X", "Y", "Z", "a", "b", "c", "d", "e", "f", "g", "h", "i", "j",
       "k", "l", "m", "n", "o", "p", "q", "r", "s", "t", "u", "v", "w", "x", "y", "z", "U+00AA",
       "U+00B5", "U+00BA", "U+00C0", "U+00C1", "U+00C2", "U+00C3", "U+00C4", "U+00C5", "U+00C6",
       "U+00C7", "U+00C8", "U+00C9", "U+00CA", "U+00CB", "U+00CC", "U+00CD", "U+00CE", "U+00CF",
       "U+00D0", "U+00D1", "U+00D2", "U+00D3", "U+00D4", "U+00D5", "U+00D6", "U+00D8", "U+00D9",
       "U+00DA", "U+00DB", "U+00DC", "U+00DD", "U+00DE", "U+00DF", "U+00E0", "U+00E1", "U+00E2",
       "U+00E3", "U+00E4", "U+00E5", "U+00E6", "U+00E7", "U+00E8", "U+00E9", "U+00EA", "U+00EB",
       "U+00EC", "U+00ED", "U+00EE", "U+00EF", "U+00F0", "U+00F1", "U+00F2", "U+00F3", "U+00F4",
       "U+00F5", "U+00F6", "U+00F8", "U+00F9", "U+00FA", "U+00FB", "U+00FC", "U+00FD", "U+00FE",
       "U+00FF", "U+0100", "U+0101", "U+0102", "U+0103", "U+0104", "U+0105", "U+0106", "U+0107",
       "U+0108", "U+0109", "U+010A", "U+010B", "U+010C", "U+010D", "U+010E", "U+010F", "U+0110",
       "U+0111", "U+0112", "U+0113", "U+0114", "U+0115", "U+0116", "U+0117", "U+0118", "U+0119",
       "U+011A", "U+011B", "U+011C", "U+011D", "U+011E", "U+011F", "U+0120", "U+0121", "U+0122",
       "U+0123", "U+0124", "U+0125", "U+0126", "U+0127", "U+0128", "U+0129", "U+012A", "U+012B",
       "U+012C", "U+012D", "U+012E", "U+012F", "U+0130", "U+0131", "U+0132", "U+0133", "U+0134",
       "U+0135", "U+0136", "U+0137", "U+0138", "U+0139", "U+013A", "U+013B", "U+013C", "U+013D",
       "U+013E", "U+013F", "U+0140", "U+0141", "U+0142", "U+0143", "U+0144", "U+0145", "U+0146",
       "U+0147", "U+0148", "U+0149", "U+014A", "U+014B", "U+014C", "U+014D", "U+014E", "U+014F",
       "U+0150", "U+0151", "U+0152", "U+0153", "U+0154", "U+0155", "U+0156", "U+0157", "U+0158",
       "U+0159", "U+015A", "U+015B", "U+015C", "U+015D", "U+015E", "U+015F", "U+0160", "U+0161",
       "U+0162", "U+0163", "U+0164", "U+0165", "U+0166", "U+0167", "U+0168", "U+0169", "U+016A",
       "U+016B", "U+016C", "U+016D", "U+016E", "U+016F", "U+0170", "U+0171", "U+0172", "U+0173",
       "U+0174", "U+0175", "U+0176", "U+0177", "U+0178", "U+0179", "U+017A", "U+017B", "U+017C",
       "U+017D", "U+017E", "U+017F", "U+0180", "U+0181", "U+0182", "U+0183", "U+0184", "U+0185",
       "U+0186", "U+0187", "U+0188", "U+0189", "U+018A", "U+018B", "U+018C", "U+018D", "U+018E",
       "U+018F", "U+0190", "U+0191", "U+0192", "U+0193", "U+0194", "U+0195", "U+0196", "U+0197",
       "U+0198", "U+0199", "U+019A", "U+019B", "U+019C", "U+019D", "U+019E", "U+019F", "U+01A0",
       "U+01A1", "U+01A2", "U+01A3", "U+01A4", "U+01A5", "U+01A6", "U+01A7", "U+01A8", "U+01A9",
       "U+01AA", "U+01AB", "U+01AC", "U+01AD", "U+01AE", "U+01AF", "U+01B0", "U+01B1", "U+01B2",
       "U+01B3", "U+01B4", "U+01B5", "U+01B6", "U+01B7", "U+01B8", "U+01B9", "U+01BA", "U+01BC",
       "U+01BD", "U+01BE", "U+01BF", "U+01C4", "U+01C5", "U+01C6", "U+01C7", "U+01C8", "U+01C9",
       "U+01CA", "U+01CB", "U+01CC", "U+01CD", "U+01CE", "U+01CF", "U+01D0", "U+01D1", "U+01D2",
       "U+01D3", "U+01D4", "U+01D5", "U+01D6", "U+01D7", "U+01D8", "U+01D9", "U+01DA", "U+01DB",
       "U+01DC", "U+01DD", "U+01DE", "U+01DF", "U+01E0", "U+01E1", "U+01E2", "U+01E3", "U+01E4",
       "U+01E5", "U+01E6", "U+01E7", "U+01E8", "U+01E9", "U+01EA", "U+01EB", "U+01EC", "U+01ED",
       "U+01EE", "U+01EF", "U+01F0", "U+01F1", "U+01F2", "U+01F3", "U+01F4", "U+01F5", "U+01F6",
       "U+01F7", "U+01F8", "U+01F9", "U+01FA", "U+01FB", "U+01FC", "U+01FD", "U+01FE", "U+01FF",
       "U+0200", "U+0201", "U+0202", "U+0203", "U+0204", "U+0205", "U+0206", "U+0207", "U+0208",
       "U+0209", "U+020A", "U+020B", "U+020C", "U+020D", "U+020E", "U+020F", "U+0210", "U+0211",
       "U+0212", "U+0213", "U+0214", "U+0215", "U+0216", "U+0217", "U+0218", "U+0219", "U+021A",
       "U+021B", "U+021C", "U+021D", "U+021E", "U+021F", "U+0220", "U+0221", "U+0222", "U+0223",
       "U+0224", "U+0225", "U+0226", "U+0227", "U+0228", "U+0229", "U+022A", "U+022B", "U+022C",
       "U+022D", "U+022E", "U+022F", "U+0230", "U+0231", "U+0232", "U+0233", "U+0234", "U+0235",
       "U+0236", "U+0237", "U+0238", "U+0239", "U+023A", "U+023B", "U+023C", "U+023D", "U+023E",
       "U+023F", "U+0240", "U+0241", "U+0242", "U+0243", "U+0244", "U+0245", "U+0246", "U+0247",
       "U+0248", "U+0249", "U+024A", "U+024B", "U+024C", "U+024D", "U+024E", "U+024F", "U+0250",
       "U+0251", "U+0252", "U+0253", "U+0254", "U+0255", "U+0256", "U+0257", "U+0258", "U+0259",
       "U+025A", "U+025B", "U+025C", "U+025D", "U+025E", "U+025F", "U+0260", "U+0261", "U+0262",
       "U+0263", "U+0264", "U+0265", "U+0266", "U+0267", "U+0268", "U+0269", "U+026A", "U+026B",
       "U+026C", "U+026D", "U+026E", "U+026F", "U+0270", "U+0271", "U+0272", "U+0273", "U+0274",
       "U+0275", "U+0276", "U+0277", "U+0278", "U+0279", "U+027A", "U+027B", "U+027C", "U+027D",
       "U+027E", "U+027F", "U+0280", "U+0281", "U+0282", "U+0283", "U+0284", "U+0285", "U+0286",
       "U+0287", "U+0288", "U+0289", "U+028A", "U+028B", "U+028C", "U+028D", "U+028E", "U+028F",
       "U+0290", "U+0291", "U+0292", "U+0293", "U+0296", "U+0297", "U+0298", "U+0299", "U+029A",
       "U+029B", "U+029C", "U+029D", "U+029E", "U+029F", "U+02A0", "U+02A1", "U+02A2", "U+02A3",
       "U+02A4", "U+02A5", "U+02A6", "U+02A7", "U+02A8", "U+02A9", "U+02AA", "U+02AB", "U+02AC",
       "U+02AD", "U+02AE", "U+02AF", "U+0370", "U+0371", "U+0372", "U+0373", "U+0376", "U+0377",
       "U+037B", "U+037C", "U+037D", "U+037F", "U+0386", "U+0388", "U+0389", "U+038A", "U+038C",
       "U+038E", "U+038F", "U+0390", "U+0391", "U+0392", "U+0393", "U+0394", "U+0395", "U+0396",
       "U+0397", "U+0398", "U+0399", "U+039A", "U+039B", "U+039C", "U+039D", "U+039E", "U+039F",
       "U+03A0", "U+03A1", "U+03A3", "U+03A4", "U+03A5", "U+03A6", "U+03A7", "U+03A8", "U+03A9",
       "U+03AA", "U+03AB", "U+03AC", "U+03AD", "U+03AE", "U+03AF", "U+03B0", "U+03B1", "U+03B2",
       "U+03B3", "U+03B4", "U+03B5", "U+03B6", "U+03B7", "U+03B8", "U+03B9", "U+03BA", "U+03BB",
       "U+03BC", "U+03BD", "U+03BE", "U+03BF", "U+03C0", "U+03C1", "U+03C2", "U+03C3", "U+03C4",
       "U+03C5", "U+03C6", "U+03C7", "U+03C8", "U+03C9", "U+03CA", "U+03CB", "U+03CC", "U+03CD",
       "U+03CE", "U+03CF", "U+03D0", "U+03D1", "U+03D2", "U+03D3", "U+03D4", "U+03D5", "U+03D6",
       "U+03D7", "U+03D8", "U+03D9", "U+03DA", "U+03DB", "U+03DC", "U+03DD", "U+03DE", "U+03DF",
       "U+03E0", "U+03E1", "U+03E2", "U+03E3", "U+03E4", "U+03E5", "U+03E6", "U+03E7", "U+03E8",
       "U+03E9", "U+03EA", "U+03EB", "U+03EC", "U+03ED", "U+03EE", "U+03EF", "U+03F0", "U+03F1",
       "U+03F2", "U+03F3", "U+03F4", "U+03F5", "U+03F7", "U+03F8", "U+03F9", "U+03FA", "U+03FB",
       "U+03FC", "U+03FD", "U+03FE", "U+03FF", "U+0400", "U+0401", "U+0402", "U+0403", "U+0404",
       "U+0405", "U+0406", "U+0407", "U+0408", "U+0409", "U+040A", "U+040B", "U+040C", "U+040D",
       "U+040E", "U+040F", "U+0410", "U+0411", "U+0412", "U+0413", "U+0414", "U+0415", "U+0416",
       "U+0417", "U+0418", "U+0419", "U+041A", "U+041B", "U+041C", "U+041D", "U+041E", "U+041F",
       "U+0420", "U+0421", "U+0422", "U+0423", "U+0424", "U+0425", "U+0426", "U+0427", "U+0428",
       "U+0429", "U+042A", "U+042B", "U+042C", "U+042D", "U+042E", "U+042F", "U+0430", "U+0431",
       "U+0432", "U+0433", "U+0434", "U+0435", "U+0436", "U+0437", "U+0438", "U+0439", "U+043A",
       "U+043B", "U+043C", "U+043D", "U+043E", "U+043F", "U+0440", "U+0441", "U+0442", "U+0443",
       "U+0444", "U+0445", "U+0446", "U+0447", "U+0448", "U+0449", "U+044A", "U+044B", "U+044C",
       "U+044D", "U+044E", "U+044F", "U+0450", "U+0451", "U+0452", "U+0453", "U+0454", "U+0455",
       "U+0456", "U+0457", "U+0458", "U+0459", "U+045A", "U+045B", "U+045C", "U+045D", "U+045E",
       "U+045F", "U+0460", "U+0461", "U+0462", "U+0463", "U+0464", "U+0465", "U+0466", "U+0467",
       "U+0468", "U+0469", "U+046A", "U+046B", "U+046C", "U+046D", "U+046E", "U+046F", "U+0470",
       "U+0471", "U+0472", "U+0473", "U+0474", "U+0475", "U+0476", "U+0477", "U+0478", "U+0479",
       "U+047A", "U+047B", "U+047C", "U+047D", "U+047E", "U+047F", "U+0480", "U+0481", "U+048A",
       "U+048B", "U+048C", "U+048D", "U+048E", "U+048F", "U+0490", "U+0491", "U+0492", "U+0493",
       "U+0494", "U+0495", "U+0496", "U+0497", "U+0498", "U+0499", "U+049A", "U+049B", "U+049C",
       "U+049D", "U+049E", "U+049F", "U+04A0", "U+04A1", "U+04A2", "U+04A3", "U+04A4", "U+04A5",
       "U+04A6", "U+04A7", "U+04A8", "U+04A9", "U+04AA", "U+04AB", "U+04AC", "U+04AD", "U+04AE",
       "U+04AF", "U+04B0", "U+04B1", "U+04B2", "U+04B3", "U+04B4", "U+04B5", "U+04B6", "U+04B7",
       "U+04B8", "U+04B9", "U+04BA", "U+04BB", "U+04BC", "U+04BD", "U+04BE", "U+04BF", "U+04C0",
       "U+04C1", "U+04C2", "U+04C3", "U+04C4", "U+04C5", "U+04C6", "U+04C7", "U+04C8", "U+04C9",
       "U+04CA", "U+04CB", "U+04CC", "U+04CD", "U+04CE", "U+04CF", "U+04D0", "U+04D1", "U+04D2",
       "U+04D3", "U+04D4", "U+04D5", "U+04D6", "U+04D7", "U+04D8", "U+04D9", "U+04DA", "U+04DB",
       "U+04DC", "U+04DD", "U+04DE", "U+04DF", "U+04E0", "U+04E1", "U+04E2", "U+04E3", "U+04E4",
       "U+04E5", "U+04E6", "U+04E7", "U+04E8", "U+04E9", "U+04EA", "U+04EB", "U+04EC", "U+04ED",
       "U+04EE", "U+04EF", "U+04F0", "U+04F1", "U+04F2", "U+04F3", "U+04F4", "U+04F5", "U+04F6",
       "U+04F7", "U+04F8", "U+04F9", "U+04FA", "U+04FB", "U+04FC", "U+04FD", "U+04FE", "U+04FF",
       "U+0500", "U+0501", "U+0502", "U+0503", "U+0504", "U+0505", "U+0506", "U+0507", "U+0508",
       "U+0509", "U+050A", "U+050B", "U+050C", "U+050D", "U+050E", "U+050F", "U+0510", "U+0511",
       "U+0512", "U+0513", "U+0514", "U+0515", "U+0516", "U+0517", "U+0518", "U+0519", "U+051A",
       "U+051B", "U+051C", "U+051D", "U+051E", "U+051F", "U+0520", "U+0521", "U+0522", "U+0523",
       "U+0524", "U+0525", "U+0526", "U+0527", "U+0528", "U+0529", "U+052A", "U+052B", "U+052C",
       "U+052D", "U+052E", "U+052F", "U+0531", "U+0532", "U+0533", "U+0534", "U+0535", "U+0536",
       "U+0537", "U+0538", "U+0539", "U+053A", "U+053B", "U+053C", "U+053D", "U+053E", "U+053F",
       "U+0540", "U+0541", "U+0542", "U+0543", "U+0544", "U+0545", "U+0546", "U+0547", "U+0548",
       "U+0549", "U+054A", "U+054B", "U+054C", "U+054D", "U+054E", "U+054F", "U+0550", "U+0551",
       "U+0552", "U+0553", "U+0554", "U+0555", "U+0556", "U+0560", "U+0561", "U+0562", "U+0563",
       "U+0564", "U+0565", "U+0566", "U+0567", "U+0568", "U+0569", "U+056A", "U+056B", "U+056C",
       "U+056D", "U+056E", "U+056F", "U+0570", "U+0571", "U+0572", "U+0573", "U+0574", "U+0575",
       "U+0576", "U+0577", "U+0578", "U+0579", "U+057A", "U+057B", "U+057C", "U+057D", "U+057E",
       "U+057F", "U+0580", "U+0581", "U+0582", "U+0583", "U+0584", "U+0585", "U+0586", "U+0587",
       "U+0588", "U+10A0", "U+10A1", "U+10A2", "U+10A3", "U+10A4", "U+10A5", "U+10A6", "U+10A7",
       "U+10A8", "U+10A9", "U+10AA", "U+10AB", "U+10AC", "U+10AD", "U+10AE", "U+10AF", "U+10B0",
       "U+10B1", "U+10B2", "U+10B3", "U+10B4", "U+10B5", "U+10B6", "U+10B7", "U+10B8", "U+10B9",
       "U+10BA", "U+10BB", "U+10BC", "U+10BD", "U+10BE", "U+10BF", "U+10C0", "U+10C1", "U+10C2",
       "U+10C3", "U+10C4", "U+10C5", "U+10C7", "U+10CD", "U+10D0", "U+10D1", "U+10D2", "U+10D3",
       "U+10D4", "U+10D5", "U+10D6", "U+10D7", "U+10D8", "U+10D9", "U+10DA", "U+10DB", "U+10DC",
       "U+10DD", "U+10DE", "U+10DF", "U+10E0", "U+10E1", "U+10E2", "U+10E3", "U+10E4", "U+10E5",
       "U+10E6", "U+10E7", "U+10E8", "U+10E9", "U+10EA", "U+10EB", "U+10EC", "U+10ED", "U+10EE",
       "U+10EF", "U+10F0", "U+10F1", "U+10F2", "U+10F3", "U+10F4", "U+10F5", "U+10F6", "U+10F7",
       "U+10F8", "U+10F9", "U+10FA", "U+10FD", "U+10FE", "U+10FF", "U+13A0", "U+13A1", "U+13A2",
       "U+13A3", "U+13A4", "U+13A5", "U+13A6", "U+13A7", "U+13A8", "U+13A9", "U+13AA", "U+13AB",
       "U+13AC", "U+13AD", "U+13AE", "U+13AF", "U+13B0", "U+13B1", "U+13B2", "U+13B3", "U+13B4",
       "U+13B5", "U+13B6", "U+13B7", "U+13B8", "U+13B9", "U+13BA", "U+13BB", "U+13BC", "U+13BD",
       "U+13BE", "U+13BF", "U+13C0", "U+13C1", "U+13C2", "U+13C3", "U+13C4", "U+13C5", "U+13C6",
       "U+13C7", "U+13C8", "U+13C9", "U+13CA", "U+13CB", "U+13CC", "U+13CD", "U+13CE", "U+13CF",
       "U+13D0", "U+13D1", "U+13D2", "U+13D3", "U+13D4", "U+13D5", "U+13D6", "U+13D7", "U+13D8",
       "U+13D9", "U+13DA", "U+13DB", "U+13DC", "U+13DD", "U+13DE", "U+13DF", "U+13E0", "U+13E1",
       "U+13E2", "U+13E3", "U+13E4", "U+13E5", "U+13E6", "U+13E7", "U+13E8", "U+13E9", "U+13EA",
       "U+13EB", "U+13EC", "U+13ED", "U+13EE", "U+13EF", "U+13F0", "U+13F1", "U+13F2", "U+13F3",
       "U+13F4", "U+13F5", "U+13F8", "U+13F9", "U+13FA", "U+13FB", "U+13FC", "U+13FD", "U+1C80",
       "U+1C81", "U+1C82", "U+1C83", "U+1C84", "U+1C85", "U+1C86", "U+1C87", "U+1C88", "U+1C89",
       "U+1C8A", "U+1C90", "U+1C91", "U+1C92", "U+1C93", "U+1C94", "U+1C95", "U+1C96", "U+1C97",
       "U+1C98", "U+1C99", "U+1C9A", "U+1C9B", "U+1C9C", "U+1C9D", "U+1C9E", "U+1C9F", "U+1CA0",
       "U+1CA1", "U+1CA2", "U+1CA3", "U+1CA4", "U+1CA5", "U+1CA6", "U+1CA7", "U+1CA8", "U+1CA9",
       "U+1CAA", "U+1CAB", "U+1CAC", "U+1CAD", "U+1CAE", "U+1CAF", "U+1CB0", "U+1CB1", "U+1CB2",
       "U+1CB3", "U+1CB4", "U+1CB5", "U+1CB6", "U+1CB7", "U+1CB8", "U+1CB9", "U+1CBA", "U+1CBD",
       "U+1CBE", "U+1CBF", "U+1D00", "U+1D01", "U+1D02", "U+1D03", "U+1D04", "U+1D05", "U+1D06",
       "U+1D07", "U+1D08", "U+1D09", "U+1D0A", "U+1D0B", "U+1D0C", "U+1D0D", "U+1D0E", "U+1D0F",
       "U+1D10", "U+1D11", "U+1D12", "U+1D13", "U+1D14", "U+1D15", "U+1D16", "U+1D17", "U+1D18",
       "U+1D19", "U+1D1A", "U+1D1B", "U+1D1C", "U+1D1D", "U+1D1E", "U+1D1F", "U+1D20", "U+1D21",
       "U+1D22", "U+1D23", "U+1D24", "U+1D25", "U+1D26", "U+1D27", "U+1D28", "U+1D29", "U+1D2A",
       "U+1D2B", "U+1D6B", "U+1D6C", "U+1D6D", "U+1D6E", "U+1D6F", "U+1D70", "U+1D71", "U+1D72",
       "U+1D73", "U+1D74", "U+1D75", "U+1D76", "U+1D77", "U+1D79", "U+1D7A", "U+1D7B", "U+1D7C",
       "U+1D7D", "U+1D7E", "U+1D7F", "U+1D80", "U+1D81", "U+1D82", "U+1D83", "U+1D84", "U+1D85",
       "U+1D86", "U+1D87", "U+1D88", "U+1D89", "U+1D8A", "U+1D8B", "U+1D8C", "U+1D8D", "U+1D8E",
       "U+1D8F", "U+1D90", "U+1D91", "U+1D92", "U+1D93", "U+1D94", "U+1D95", "U+1D96", "U+1D97",
       "U+1D98", "U+1D99", "U+1D9A", "U+1E00", "U+1E01", "U+1E02", "U+1E03", "U+1E04", "U+1E05",
       "U+1E06", "U+1E07", "U+1E08", "U+1E09", "U+1E0A", "U+1E0B", "U+1E0C", "U+1E0D", "U+1E0E",
       "U+1E0F", "U+1E10", "U+1E11", "U+1E12", "U+1E13", "U+1E14", "U+1E15", "U+1E16", "U+1E17",
       "U+1E18", "U+1E19", "U+1E1A", "U+1E1B", "U+1E1C", "U+1E1D", "U+1E1E", "U+1E1F", "U+1E20",
       "U+1E21", "U+1E22", "U+1E23", "U+1E24", "U+1E25", "U+1E26", "U+1E27", "U+1E28", "U+1E29",
       "U+1E2A", "U+1E2B", "U+1E2C", "U+1E2D", "U+1E2E", "U+1E2F", "U+1E30", "U+1E31", "U+1E32",
       "U+1E33", "U+1E34", "U+1E35", "U+1E36", "U+1E37", "U+1E38", "U+1E39", "U+1E3A", "U+1E3B",
       "U+1E3C", "U+1E3D", "U+1E3E", "U+1E3F", "U+1E40", "U+1E41", "U+1E42", "U+1E43", "U+1E44",
       "U+1E45", "U+1E46", "U+1E47", "U+1E48", "U+1E49", "U+1E4A", "U+1E4B", "U+1E4C", "U+1E4D",
       "U+1E4E", "U+1E4F", "U+1E50", "U+1E51", "U+1E52", "U+1E53", "U+1E54", "U+1E55", "U+1E56",
       "U+1E57", "U+1E58", "U+1E59", "U+1E5A", "U+1E5B", "U+1E5C", "U+1E5D", "U+1E5E", "U+1E5F",
       "U+1E60", "U+1E61", "U+1E62", "U+1E63", "U+1E64", "U+1E65", "U+1E66", "U+1E67", "U+1E68",
       "U+1E69", "U+1E6A", "U+1E6B", "U+1E6C", "U+1E6D", "U+1E6E", "U+1E6F", "U+1E70", "U+1E71",
       "U+1E72", "U+1E73", "U+1E74", "U+1E75", "U+1E76", "U+1E77", "U+1E78", "U+1E79", "U+1E7A",
       "U+1E7B", "U+1E7C", "U+1E7D", "U+1E7E", "U+1E7F", "U+1E80", "U+1E81", "U+1E82", "U+1E83",
       "U+1E84", "U+1E85", "U+1E86", "U+1E87", "U+1E88", "U+1E89", "U+1E8A", "U+1E8B", "U+1E8C",
       "U+1E8D", "U+1E8E", "U+1E8F", "U+1E90", "U+1E91", "U+1E92", "U+1E93", "U+1E94", "U+1E95",
       "U+1E96", "U+1E97", "U+1E98", "U+1E99", "U+1E9A", "U+1E9B", "U+1E9C", "U+1E9D", "U+1E9E",
       "U+1E9F", "U+1EA0", "U+1EA1", "U+1EA2", "U+1EA3", "U+1EA4", "U+1EA5", "U+1EA6", "U+1EA7",
       "U+1EA8", "U+1EA9", "U+1EAA", "U+1EAB", "U+1EAC", "U+1EAD", "U+1EAE", "U+1EAF", "U+1EB0",
       "U+1EB1", "U+1EB2", "U+1EB3", "U+1EB4", "U+1EB5", "U+1EB6", "U+1EB7", "U+1EB8", "U+1EB9",
       "U+1EBA", "U+1EBB", "U+1EBC", "U+1EBD", "U+1EBE", "U+1EBF", "U+1EC0", "U+1EC1", "U+1EC2",
       "U+1EC3", "U+1EC4", "U+1EC5", "U+1EC6", "U+1EC7", "U+1EC8", "U+1EC9", "U+1ECA", "U+1ECB",
       "U+1ECC", "U+1ECD", "U+1ECE", "U+1ECF", "U+1ED0", "U+1ED1", "U+1ED2", "U+1ED3", "U+1ED4",
       "U+1ED5", "U+1ED6", "U+1ED7", "U+1ED8", "U+1ED9", "U+1EDA", "U+1EDB", "U+1EDC", "U+1EDD",
       "U+1EDE", "U+1EDF", "U+1EE0", "U+1EE1", "U+1EE2", "U+1EE3", "U+1EE4", "U+1EE5", "U+1EE6",
       "U+1EE7", "U+1EE8", "U+1EE9", "U+1EEA", "U+1EEB", "U+1EEC", "U+1EED", "U+1EEE", "U+1EEF",
       "U+1EF0", "U+1EF1", "U+1EF2", "U+1EF3", "U+1EF4", "U+1EF5", "U+1EF6", "U+1EF7", "U+1EF8",
       "U+1EF9", "U+1EFA", "U+1EFB", "U+1EFC", "U+1EFD", "U+1EFE", "U+1EFF", "U+1F00", "U+1F01",
       "U+1F02", "U+1F03", "U+1F04", "U+1F05", "U+1F06", "U+1F07", "U+1F08", "U+1F09", "U+1F0A",
       "U+1F0B", "U+1F0C", "U+1F0D", "U+1F0E", "U+1F0F", "U+1F10", "U+1F11", "U+1F12", "U+1F13",
       "U+1F14", "U+1F15", "U+1F18", "U+1F19", "U+1F1A", "U+1F1B", "U+1F1C", "U+1F1D", "U+1F20",
       "U+1F21", "U+1F22", "U+1F23", "U+1F24", "U+1F25", "U+1F26", "U+1F27", "U+1F28", "U+1F29",
       "U+1F2A", "U+1F2B", "U+1F2C", "U+1F2D", "U+1F2E", "U+1F2F", "U+1F30", "U+1F31", "U+1F32",
       "U+1F33", "U+1F34", "U+1F35", "U+1F36", "U+1F37", "U+1F38", "U+1F39", "U+1F3A", "U+1F3B",
       "U+1F3C", "U+1F3D", "U+1F3E", "U+1F3F", "U+1F40", "U+1F41", "U+1F42", "U+1F43", "U+1F44",
       "U+1F45", "U+1F48", "U+1F49", "U+1F4A", "U+1F4B", "U+1F4C", "U+1F4D", "U+1F50", "U+1F51",
       "U+1F52", "U+1F53", "U+1F54", "U+1F55", "U+1F56", "U+1F57", "U+1F59", "U+1F5B", "U+1F5D",
       "U+1F5F", "U+1F60", "U+1F61", "U+1F62", "U+1F63", "U+1F64", "U+1F65", "U+1F66", "U+1F67",
       "U+1F68", "U+1F69", "U+1F6A", "U+1F6B", "U+1F6C", "U+1F6D", "U+1F6E", "U+1F6F", "U+1F70",
       "U+1F71", "U+1F72", "U+1F73", "U+1F74", "U+1F75", "U+1F76", "U+1F77", "U+1F78", "U+1F79",
       "U+1F7A", "U+1F7B", "U+1F7C", "U+1F7D", "U+1F80", "U+1F81", "U+1F82", "U+1F83", "U+1F84",
       "U+1F85", "U+1F86", "U+1F87", "U+1F88", "U+1F89", "U+1F8A", "U+1F8B", "U+1F8C", "U+1F8D",
       "U+1F8E", "U+1F8F", "U+1F90", "U+1F91", "U+1F92", "U+1F93", "U+1F94", "U+1F95", "U+1F96",
       "U+1F97", "U+1F98", "U+1F99", "U+1F9A", "U+1F9B", "U+1F9C", "U+1F9D", "U+1F9E", "U+1F9F",
       "U+1FA0", "U+1FA1", "U+1FA2", "U+1FA3", "U+1FA4", "U+1FA5", "U+1FA6", "U+1FA7", "U+1FA8",
       "U+1FA9", "U+1FAA", "U+1FAB", "U+1FAC", "U+1FAD", "U+1FAE", "U+1FAF", "U+1FB0", "U+1FB1",
       "U+1FB2", "U+1FB3", "U+1FB4", "U+1FB6", "U+1FB7", "U+1FB8", "U+1FB9", "U+1FBA", "U+1FBB",
       "U+1FBC", "U+1FBE", "U+1FC2", "U+1FC3", "U+1FC4", "U+1FC6", "U+1FC7", "U+1FC8", "U+1FC9",
       "U+1FCA", "U+1FCB", "U+1FCC", "U+1FD0", "U+1FD1", "U+1FD2", "U+1FD3", "U+1FD6", "U+1FD7",
       "U+1FD8", "U+1FD9", "U+1FDA", "U+1FDB", "U+1FE0", "U+1FE1", "U+1FE2", "U+1FE3", "U+1FE4",
       "U+1FE5", "U+1FE6", "U+1FE7", "U+1FE8", "U+1FE9", "U+1FEA", "U+1FEB", "U+1FEC", "U+1FF2",
       "U+1FF3", "U+1FF4", "U+1FF6", "U+1FF7", "U+1FF8", "U+1FF9", "U+1FFA", "U+1FFB", "U+1FFC",
       "U+2102", "U+2107", "U+210A", "U+210B", "U+210C", "U+210D", "U+210E", "U+210F", "U+2110",
       "U+2111", "U+2112", "U+2113", "U+2115", "U+2119", "U+211A", "U+211B", "U+211C", "U+211D",
       "U+2124", "U+2126", "U+2128", "U+212A", "U+212B", "U+212C", "U+212D", "U+212F", "U+2130",
       "U+2131", "U+2132", "U+2133", "U+2134", "U+2139", "U+213C", "U+213D", "U+213E", "U+213F",
       "U+2145", "U+2146", "U+2147", "U+2148", "U+2149", "U+214E", "U+2160", "U+2161", "U+2162",
       "U+2163", "U+2164", "U+2165", "U+2166", "U+2167", "U+2168", "U+2169", "U+216A", "U+216B",
       "U+216C", "U+216D", "U+216E", "U+216F", "U+2170", "U+2171", "U+2172", "U+2173", "U+2174",
       "U+2175", "U+2176", "U+2177", "U+2178", "U+2179", "U+217A", "U+217B", "U+217C", "U+217D",
       "U+217E", "U+217F", "U+2183", "U+2184", "U+24B6", "U+24B7", "U+24B8", "U+24B9", "U+24BA",
       "U+24BB", "U+24BC", "U+24BD", "U+24BE", "U+24BF", "U+24C0", "U+24C1", "U+24C2", "U+24C3",
       "U+24C4", "U+24C5", "U+24C6", "U+24C7", "U+24C8", "U+24C9", "U+24CA", "U+24CB", "U+24CC",
       "U+24CD", "U+24CE", "U+24CF", "U+24D0", "U+24D1", "U+24D2", "U+24D3", "U+24D4", "U+24D5",
       "U+24D6", "U+24D7", "U+24D8", "U+24D9", "U+24DA", "U+24DB", "U+24DC", "U+24DD", "U+24DE",
       "U+24DF", "U+24E0", "U+24E1", "U+24E2", "U+24E3", "U+24E4", "U+24E5", "U+24E6", "U+24E7",
       "U+24E8", "U+24E9", "U+2C00", "U+2C01", "U+2C02", "U+2C03", "U+2C04", "U+2C05", "U+2C06",
       "U+2C07", "U+2C08", "U+2C09", "U+2C0A", "U+2C0B", "U+2C0C", "U+2C0D", "U+2C0E", "U+2C0F",
       "U+2C10", "U+2C11", "U+2C12", "U+2C13", "U+2C14", "U+2C15", "U+2C16", "U+2C17", "U+2C18",
       "U+2C19", "U+2C1A", "U+2C1B", "U+2C1C", "U+2C1D", "U+2C1E", "U+2C1F", "U+2C20", "U+2C21",
       "U+2C22", "U+2C23", "U+2C24", "U+2C25", "U+2C26", "U+2C27", "U+2C28", "U+2C29", "U+2C2A",
       "U+2C2B", "U+2C2C", "U+2C2D", "U+2C2E", "U+2C2F", "U+2C30", "U+2C31", "U+2C32", "U+2C33",
       "U+2C34", "U+2C35", "U+2C36", "U+2C37", "U+2C38", "U+2C39", "U+2C3A", "U+2C3B", "U+2C3C",
       "U+2C3D", "U+2C3E", "U+2C3F", "U+2C40", "U+2C41", "U+2C42", "U+2C43", "U+2C44", "U+2C45",
       "U+2C46", "U+2C47", "U+2C48", "U+2C49", "U+2C4A", "U+2C4B", "U+2C4C", "U+2C4D", "U+2C4E",
       "U+2C4F", "U+2C50", "U+2C51", "U+2C52", "U+2C53", "U+2C54", "U+2C55", "U+2C56", "U+2C57",
       "U+2C58", "U+2C59", "U+2C5A", "U+2C5B", "U+2C5C", "U+2C5D", "U+2C5E", "U+2C5F", "U+2C60",
       "U+2C61", "U+2C62", "U+2C63", "U+2C64", "U+2C65", "U+2C66", "U+2C67", "U+2C68", "U+2C69",
       "U+2C6A", "U+2C6B", "U+2C6C", "U+2C6D", "U+2C6E", "U+2C6F", "U+2C70", "U+2C71", "U+2C72",
       "U+2C73", "U+2C74", "U+2C75", "U+2C76", "U+2C77", "U+2C78", "U+2C79", "U+2C7A", "U+2C7B",
       "U+2C7E", "U+2C7F", "U+2C80", "U+2C81", "U+2C82", "U+2C83", "U+2C84", "U+2C85", "U+2C86",
       "U+2C87", "U+2C88", "U+2C89", "U+2C8A", "U+2C8B", "U+2C8C", "U+2C8D", "U+2C8E", "U+2C8F",
       "U+2C90", "U+2C91", "U+2C92", "U+2C93", "U+2C94", "U+2C95", "U+2C96", "U+2C97", "U+2C98",
       "U+2C99", "U+2C9A", "U+2C9B", "U+2C9C", "U+2C9D", "U+2C9E", "U+2C9F", "U+2CA0", "U+2CA1",
       "U+2CA2", "U+2CA3", "U+2CA4", "U+2CA5", "U+2CA6", "U+2CA7", "U+2CA8", "U+2CA9", "U+2CAA",
       "U+2CAB", "U+2CAC", "U+2CAD", "U+2CAE", "U+2CAF", "U+2CB0", "U+2CB1", "U+2CB2", "U+2CB3",
       "U+2CB4", "U+2CB5", "U+2CB6", "U+2CB7", "U+2CB8", "U+2CB9", "U+2CBA", "U+2CBB", "U+2CBC",
       "U+2CBD", "U+2CBE", "U+2CBF", "U+2CC0", "U+2CC1", "U+2CC2", "U+2CC3", "U+2CC4", "U+2CC5",
       "U+2CC6", "U+2CC7", "U+2CC8", "U+2CC9", "U+2CCA", "U+2CCB", "U+2CCC", "U+2CCD", "U+2CCE",
       "U+2CCF", "U+2CD0", "U+2CD1", "U+2CD2", "U+2CD3", "U+2CD4", "U+2CD5", "U+2CD6", "U+2CD7",
       "U+2CD8", "U+2CD9", "U+2CDA", "U+2CDB", "U+2CDC", "U+2CDD", "U+2CDE", "U+2CDF", "U+2CE0",
       "U+2CE1", "U+2CE2", "U+2CE3", "U+2CE4", "U+2CEB", "U+2CEC", "U+2CED", "U+2CEE", "U+2CF2",
       "U+2CF3", "U+2D00", "U+2D01", "U+2D02", "U+2D03", "U+2D04", "U+2D05", "U+2D06", "U+2D07",
       "U+2D08", "U+2D09", "U+2D0A", "U+2D0B", "U+2D0C", "U+2D0D", "U+2D0E", "U+2D0F", "U+2D10",
       "U+2D11", "U+2D12", "U+2D13", "U+2D14", "U+2D15", "U+2D16", "U+2D17", "U+2D18", "U+2D19",
       "U+2D1A", "U+2D1B", "U+2D1C", "U+2D1D", "U+2D1E", "U+2D1F", "U+2D20", "U+2D21", "U+2D22",
       "U+2D23", "U+2D24", "U+2D25", "U+2D27", "U+2D2D", "U+A640", "U+A641", "U+A642", "U+A643",
       "U+A644", "U+A645", "U+A646", "U+A647", "U+A648", "U+A649", "U+A64A", "U+A64B", "U+A64C",
       "U+A64D", "U+A64E", "U+A64F", "U+A650", "U+A651", "U+A652", "U+A653", "U+A654", "U+A655",
       "U+A656", "U+A657", "U+A658", "U+A659", "U+A65A", "U+A65B", "U+A65C", "U+A65D", "U+A65E",
       "U+A65F", "U+A660", "U+A661", "U+A662", "U+A663", "U+A664", "U+A665", "U+A666", "U+A667",
       "U+A668", "U+A669", "U+A66A", "U+A66B", "U+A66C", "U+A66D", "U+A680", "U+A681", "U+A682",
       "U+A683", "U+A684", "U+A685", "U+A686", "U+A687", "U+A688", "U+A689", "U+A68A", "U+A68B",
       "U+A68C", "U+A68D", "U+A68E", "U+A68F", "U+A690", "U+A691", "U+A692", "U+A693", "U+A694",
       "U+A695", "U+A696", "U+A697", "U+A698", "U+A699", "U+A69A", "U+A69B", "U+A722", "U+A723",
       "U+A724", "U+A725", "U+A726", "U+A727", "U+A728", "U+A729", "U+A72A", "U+A72B", "U+A72C",
       "U+A72D", "U+A72E", "U+A72F", "U+A730", "U+A731", "U+A732", "U+A733", "U+A734", "U+A735",
       "U+A736", "U+A737", "U+A738", "U+A739", "U+A73A", "U+A73B", "U+A73C", "U+A73D", "U+A73E",
       "U+A73F", "U+A740", "U+A741", "U+A742", "U+A743", "U+A744", "U+A745", "U+A746", "U+A747",
       "U+A748", "U+A749", "U+A74A", "U+A74B", "U+A74C", "U+A74D", "U+A74E", "U+A74F", "U+A750",
       "U+A751", "U+A752", "U+A753", "U+A754", "U+A755", "U+A756", "U+A757", "U+A758", "U+A759",
       "U+A75A", "U+A75B", "U+A75C", "U+A75D", "U+A75E", "U+A75F", "U+A760", "U+A761", "U+A762",
       "U+A763", "U+A764", "U+A765", "U+A766", "U+A767", "U+A768", "U+A769", "U+A76A", "U+A76B",
       "U+A76C", "U+A76D", "U+A76E", "U+A76F", "U+A771", "U+A772", "U+A773", "U+A774", "U+A775",
       "U+A776", "U+A777", "U+A778", "U+A779", "U+A77A", "U+A77B", "U+A77C", "U+A77D", "U+A77E",
       "U+A77F", "U+A780", "U+A781", "U+A782", "U+A783", "U+A784", "U+A785", "U+A786", "U+A787",
       "U+A78B", "U+A78C", "U+A78D", "U+A78E", "U+A790", "U+A791", "U+A792", "U+A793", "U+A794",
       "U+A795", "U+A796", "U+A797", "U+A798", "U+A799", "U+A79A", "U+A79B", "U+A79C", "U+A79D",
       "U+A79E", "U+A79F", "U+A7A0", "U+A7A1", "U+A7A2", "U+A7A3", "U+A7A4", "U+A7A5", "U+A7A6",
       "U+A7A7", "U+A7A8", "U+A7A9", "U+A7AA", "U+A7AB", "U+A7AC", "U+A7AD", "U+A7AE", "U+A7AF",
       "U+A7B0", "U+A7B1", "U+A7B2", "U+A7B3", "U+A7B4", "U+A7B5", "U+A7B6", "U+A7B7", "U+A7B8",
       "U+A7B9", "U+A7BA", "U+A7BB", "U+A7BC", "U+A7BD", "U+A7BE", "U+A7BF", "U+A7C0", "U+A7C1",
       "U+A7C2", "U+A7C3", "U+A7C4", "U+A7C5", "U+A7C6", "U+A7C7", "U+A7C8", "U+A7C9", "U+A7CA",
       "U+A7CB", "U+A7CC", "U+A7CD", "U+A7CE", "U+A7CF", "U+A7D0", "U+A7D1", "U+A7D2", "U+A7D3",
       "U+A7D4", "U+A7D5", "U+A7D6", "U+A7D7", "U+A7D8", "U+A7D9", "U+A7DA", "U+A7DB", "U+A7DC",
       "U+A7F5", "U+A7F6", "U+A7FA", "U+AB30", "U+AB31", "U+AB32", "U+AB33", "U+AB34", "U+AB35",
       "U+AB36", "U+AB37", "U+AB38", "U+AB39", "U+AB3A", "U+AB3B", "U+AB3C", "U+AB3D", "U+AB3E",
       "U+AB3F", "U+AB40", "U+AB41", "U+AB42", "U+AB43", "U+AB44", "U+AB45", "U+AB46", "U+AB47",
       "U+AB48", "U+AB49", "U+AB4A", "U+AB4B", "U+AB4C", "U+AB4D", "U+AB4E", "U+AB4F", "U+AB50",
       "U+AB51", "U+AB52", "U+AB53", "U+AB54", "U+AB55", "U+AB56", "U+AB57", "U+AB58", "U+AB59",
       "U+AB5A", "U+AB60", "U+AB61", "U+AB62", "U+AB63", "U+AB64", "U+AB65", "U+AB66", "U+AB67",
       "U+AB68", "U+AB70", "U+AB71", "U+AB72", "U+AB73", "U+AB74", "U+AB75", "U+AB76", "U+AB77",
       "U+AB78", "U+AB79", "U+AB7A", "U+AB7B", "U+AB7C", "U+AB7D", "U+AB7E", "U+AB7F", "U+AB80",
       "U+AB81", "U+AB82", "U+AB83", "U+AB84", "U+AB85", "U+AB86", "U+AB87", "U+AB88", "U+AB89",
       "U+AB8A", "U+AB8B", "U+AB8C", "U+AB8D", "U+AB8E", "U+AB8F", "U+AB90", "U+AB91", "U+AB92",
       "U+AB93", "U+AB94", "U+AB95", "U+AB96", "U+AB97", "U+AB98", "U+AB99", "U+AB9A", "U+AB9B",
       "U+AB9C", "U+AB9D", "U+AB9E", "U+AB9F", "U+ABA0", "U+ABA1", "U+ABA2", "U+ABA3", "U+ABA4",
       "U+ABA5", "U+ABA6", "U+ABA7", "U+ABA8", "U+ABA9", "U+ABAA", "U+ABAB", "U+ABAC", "U+ABAD",
       "U+ABAE", "U+ABAF", "U+ABB0", "U+ABB1", "U+ABB2", "U+ABB3", "U+ABB4", "U+ABB5", "U+ABB6",
       "U+ABB7", "U+ABB8", "U+ABB9", "U+ABBA", "U+ABBB", "U+ABBC", "U+ABBD", "U+ABBE", "U+ABBF",
       "U+FB00", "U+FB01", "U+FB02", "U+FB03", "U+FB04", "U+FB05", "U+FB06", "U+FB13", "U+FB14",
       "U+FB15", "U+FB16", "U+FB17", "U+FF21", "U+FF22", "U+FF23", "U+FF24", "U+FF25", "U+FF26",
       "U+FF27", "U+FF28", "U+FF29", "U+FF2A", "U+FF2B", "U+FF2C", "U+FF2D", "U+FF2E", "U+FF2F",
       "U+FF30", "U+FF31", "U+FF32", "U+FF33", "U+FF34", "U+FF35", "U+FF36", "U+FF37", "U+FF38",
       "U+FF39", "U+FF3A", "U+FF41", "U+FF42", "U+FF43", "U+FF44", "U+FF45", "U+FF46", "U+FF47",
       "U+FF48", "U+FF49", "U+FF4A", "U+FF4B", "U+FF4C", "U+FF4D", "U+FF4E", "U+FF4F", "U+FF50",
       "U+FF51", "U+FF52", "U+FF53", "U+FF54", "U+FF55", "U+FF56", "U+FF57", "U+FF58", "U+FF59",
       "U+FF5A" }
CaseIgnorablePairs ==
    { "U+D800U+DDFD", "U+D800U+DEE0", "U+D800U+DF76", "U+D800U+DF77", "U+D800U+DF78",
       "U+D800U+DF79", "U+D800U+DF7A", "U+D801U+DF80", "U+D801U+DF81", "U+D801U+DF82",
       "U+D801U+DF83", "U+D801U+DF84", "U+D801U+DF85", "U+D801U+DF87", "U+D801U+DF88",
       "U+D801U+DF89", "U+D801U+DF8A", "U+D801U+DF8B", "U+D801U+DF8C", "U+D801U+DF8D",
       "U+D801U+DF8E", "U+D801U+DF8F", "U+D801U+DF90", "U+D801U+DF91", "U+D801U+DF92",
       "U+D801U+DF93", "U+D801U+DF94", "U+D801U+DF95", "U+D801U+DF96", "U+D801U+DF97",
       "U+D801U+DF98", "U+D801U+DF99", "U+D801U+DF9A", "U+D801U+DF9B", "U+D801U+DF9C",
       "U+D801U+DF9D", "U+D801U+DF9E", "U+D801U+DF9F", "U+D801U+DFA0", "U+D801U+DFA1",
       "U+D801U+DFA2", "U+D801U+DFA3", "U+D801U+DFA4", "U+D801U+DFA5", "U+D801U+DFA6",
       "U+D801U+DFA7", "U+D801U+DFA8", "U+D801U+DFA9", "U+D801U+DFAA", "U+D801U+DFAB",
       "U+D801U+DFAC", "U+D801U+DFAD", "U+D801U+DFAE", "U+D801U+DFAF", "U+D801U+DFB0",
       "U+D801U+DFB2", "U+D801U+DFB3", "U+D801U+DFB4", "U+D801U+DFB5", "U+D801U+DFB6",
       "U+D801U+DFB7", "U+D801U+DFB8", "U+D801U+DFB9", "U+D801U+DFBA", "U+D802U+DE01",
       "U+D802U+DE02", "U+D802U+DE03", "U+D802U+DE05", "U+D802U+DE06", "U+D802U+DE0C",
       "U+D802U+DE0D", "U+D802U+DE0E", "U+D802U+DE0F", "U+D802U+DE38", "U+D802U+DE39",
       "U+D802U+DE3A", "U+D802U+DE3F", "U+D802U+DEE5", "U+D802U+DEE6", "U+D803U+DD24",
       "U+D803U+DD25", "U+D803U+DD26", "U+D803U+DD27", "U+D803U+DD4E", "U+D803U+DD69",
       "U+D803U+DD6A", "U+D803U+DD6B", "U+D803U+DD6C", "U+D803U+DD6D", "U+D803U+DD6F",
       "U+D803U+DEAB", "U+D803U+DEAC", "U+D803U+DEC5", "U+D803U+DEFA", "U+D803U+DEFB",
       "U+D803U+DEFC", "U+D803U+DEFD", "U+D803U+DEFE", "U+D803U+DEFF", "U+D803U+DF46",
       "U+D803U+DF47", "U+D803U+DF48", "U+D803U+DF49", "U+D803U+DF4A", "U+D803U+DF4B",
       "U+D803U+DF4C", "U+D803U+DF4D", "U+D803U+DF4E", "U+D803U+DF4F", "U+D803U+DF50",
       "U+D803U+DF82", "U+D803U+DF83", "U+D803U+DF84", "U+D803U+DF85", "U+D804U+DC01",
       "U+D804U+DC38", "U+D804U+DC39", "U+D804U+DC3A", "U+D804U+DC3B", "U+D804U+DC3C",
       "U+D804U+DC3D", "U+D804U+DC3E", "U+D804U+DC3F", "U+D804U+DC40", "U+D804U+DC41",
       "U+D804U+DC42", "U+D804U+DC43", "U+D804U+DC44", "U+D804U+DC45", "U+D804U+DC46",
       "U+D804U+DC70", "U+D804U+DC73", "U+D804U+DC74", "U+D804U+DC7F", "U+D804U+DC80",
       "U+D804U+DC81", "U+D804U+DCB3", "U+D804U+DCB4", "U+D804U+DCB5", "U+D804U+DCB6",
       "U+D804U+DCB9", "U+D804U+DCBA", "U+D804U+DCBD", "U+D804U+DCC2", "U+D804U+DCCD",
       "U+D804U+DD00", "U+D804U+DD01", "U+D804U+DD02", "U+D804U+DD27", "U+D804U+DD28",
       "U+D804U+DD29", "U+D804U+DD2A", "U+D804U+DD2B", "U+D804U+DD2D", "U+D804U+DD2E",
       "U+D804U+DD2F", "U+D804U+DD30", "U+D804U+DD31", "U+D804U+DD32", "U+D804U+DD33",
       "U+D804U+DD34", "U+D804U+DD73", "U+D804U+DD80", "U+D804U+DD81", "U+D804U+DDB6",
       "U+D804U+DDB7", "U+D804U+DDB8", "U+D804U+DDB9", "U+D804U+DDBA", "U+D804U+DDBB",
       "U+D804U+DDBC", "U+D804U+DDBD", "U+D804U+DDBE", "U+D804U+DDC9", "U+D804U+DDCA",
       "U+D804U+DDCB", "U+D804U+DDCC", "U+D804U+DDCF", "U+D804U+DE2F", "U+D804U+DE30",
       "U+D804U+DE31", "U+D804U+DE34", "U+D804U+DE36", "U+D804U+DE37", "U+D804U+DE3E",
       "U+D804U+DE41", "U+D804U+DEDF", "U+D804U+DEE3", "U+D804U+DEE4", "U+D804U+DEE5",
       "U+D804U+DEE6", "U+D804U+DEE7", "U+D804U+DEE8", "U+D804U+DEE9", "U+D804U+DEEA",
       "U+D804U+DF00", "U+D804U+DF01", "U+D804U+DF3B", "U+D804U+DF3C", "U+D804U+DF40",
       "U+D804U+DF66", "U+D804U+DF67", "U+D804U+DF68", "U+D804U+DF69", "U+D804U+DF6A",
       "U+D804U+DF6B", "U+D804U+DF6C", "U+D804U+DF70", "U+D804U+DF71", "U+D804U+DF72",
       "U+D804U+DF73", "U+D804U+DF74", "U+D804U+DFBB", "U+D804U+DFBC", "U+D804U+DFBD",
       "U+D804U+DFBE", "U+D804U+DFBF", "U+D804U+DFC0", "U+D804U+DFCE", "U+D804U+DFD0",
       "U+D804U+DFD2", "U+D804U+DFE1", "U+D804U+DFE2", "U+D805U+DC38", "U+D805U+DC39",
       "U+D805U+DC3A", "U+D805U+DC3B", "U+D805U+DC3C", "U+D805U+DC3D", "U+D805U+DC3E",
       "U+D805U+DC3F", "U+D805U+DC42", "U+D805U+DC43", "U+D805U+DC44", "U+D805U+DC46",
       "U+D805U+DC5E", "U+D805U+DCB3", "U+D805U+DCB4", "U+D805U+DCB5", "U+D805U+DCB6",
       "U+D805U+DCB7", "U+D805U+DCB8", "U+D805U+DCBA", "U+D805U+DCBF", "U+D805U+DCC0",
       "U+D805U+DCC2", "U+D805U+DCC3", "U+D805U+DDB2", "U+D805U+DDB3", "U+D805U+DDB4",
       "U+D805U+DDB5", "U+D805U+DDBC", "U+D805U+DDBD", "U+D805U+DDBF", "U+D805U+DDC0",
       "U+D805U+DDDC", "U+D805U+DDDD", "U+D805U+DE33", "U+D805U+DE34", "U+D805U+DE35",
       "U+D805U+DE36", "U+D805U+DE37", "U+D805U+DE38", "U+D805U+DE39", "U+D805U+DE3A",
       "U+D805U+DE3D", "U+D805U+DE3F", "U+D805U+DE40", "U+D805U+DEAB", "U+D805U+DEAD",
       "U+D805U+DEB0", "U+D805U+DEB1", "U+D805U+DEB2", "U+D805U+DEB3", "U+D805U+DEB4",
       "U+D805U+DEB5", "U+D805U+DEB7", "U+D805U+DF1D", "U+D805U+DF1F", "U+D805U+DF22",
       "U+D805U+DF23", "U+D805U+DF24", "U+D805U+DF25", "U+D805U+DF27", "U+D805U+DF28",
       "U+D805U+DF29", "U+D805U+DF2A", "U+D805U+DF2B", "U+D806U+DC2F", "U+D806U+DC30",
       "U+D806U+DC31", "U+D806U+DC32", "U+D806U+DC33", "U+D806U+DC34", "U+D806U+DC35",
       "U+D806U+DC36", "U+D806U+DC37", "U+D806U+DC39", "U+D806U+DC3A", "U+D806U+DD3B",
       "U+D806U+DD3C", "U+D806U+DD3E", "U+D806U+DD43", "U+D806U+DDD4", "U+D806U+DDD5",
       "U+D806U+DDD6", "U+D806U+DDD7", "U+D806U+DDDA", "U+D806U+DDDB", "U+D806U+DDE0",
       "U+D806U+DE01", "U+D806U+DE02", "U+D806U+DE03", "U+D806U+DE04", "U+D806U+DE05",
       "U+D806U+DE06", "U+D806U+DE07", "U+D806U+DE08", "U+D806U+DE09", "U+D806U+DE0A",
       "U+D806U+DE33", "U+D806U+DE34", "U+D806U+DE35", "U+D806U+DE36", "U+D806U+DE37",
       "U+D806U+DE38", "U+D806U+DE3B", "U+D806U+DE3C", "U+D806U+DE3D", "U+D806U+DE3E",
       "U+D806U+DE47", "U+D806U+DE51", "U+D806U+DE52", "U+D806U+DE53", "U+D806U+DE54",
       "U+D806U+DE55", "U+D806U+DE56", "U+D806U+DE59", "U+D806U+DE5A", "U+D806U+DE5B",
       "U+D806U+DE8A", "U+D806U+DE8B", "U+D806U+DE8C", "U+D806U+DE8D", "U+D806U+DE8E",
       "U+D806U+DE8F", "U+D806U+DE90", "U+D806U+DE91", "U+D806U+DE92", "U+D806U+DE93",
       "U+D806U+DE94", "U+D806U+DE95", "U+D806U+DE96", "U+D806U+DE98", "U+D806U+DE99",
       "U+D806U+DF60", "U+D806U+DF62", "U+D806U+DF63", "U+D806U+DF64", "U+D806U+DF66",
       "U+D807U+DC30", "U+D807U+DC31", "U+D807U+DC32", "U+D807U+DC33", "U+D807U+DC34",
       "U+D807U+DC35", "U+D807U+DC36", "U+D807U+DC38", "U+D807U+DC39", "U+D807U+DC3A",
       "U+D807U+DC3B", "U+D807U+DC3C", "U+D807U+DC3D", "U+D807U+DC3F", "U+D807U+DC92",
       "U+D807U+DC93", "U+D807U+DC94", "U+D807U+DC95", "U+D807U+DC96", "U+D807U+DC97",
       "U+D807U+DC98", "U+D807U+DC99", "U+D807U+DC9A", "U+D807U+DC9B", "U+D807U+DC9C",
       "U+D807U+DC9D", "U+D807U+DC9E", "U+D807U+DC9F", "U+D807U+DCA0", "U+D807U+DCA1",
       "U+D807U+DCA2", "U+D807U+DCA3", "U+D807U+DCA4", "U+D807U+DCA5", "U+D807U+DCA6",
       "U+D807U+DCA7", "U+D807U+DCAA", "U+D807U+DCAB", "U+D807U+DCAC", "U+D807U+DCAD",
       "U+D807U+DCAE", "U+D807U+DCAF", "U+D807U+DCB0", "U+D807U+DCB2", "U+D807U+DCB3",
       "U+D807U+DCB5", "U+D807U+DCB6", "U+D807U+DD31", "U+D807U+DD32", "U+D807U+DD33",
       "U+D807U+DD34", "U+D807U+DD35", "U+D807U+DD36", "U+D807U+DD3A", "U+D807U+DD3C",
       "U+D807U+DD3D", "U+D807U+DD3F", "U+D807U+DD40", "U+D807U+DD41", "U+D807U+DD42",
       "U+D807U+DD43", "U+D807U+DD44", "U+D807U+DD45", "U+D807U+DD47", "U+D807U+DD90",
       "U+D807U+DD91", "U+D807U+DD95", "U+D807U+DD97", "U+D807U+DDD9", "U+D807U+DEF3",
       "U+D807U+DEF4", "U+D807U+DF00", "U+D807U+DF01", "U+D807U+DF36", "U+D807U+DF37",
       "U+D807U+DF38", "U+D807U+DF39", "U+D807U+DF3A", "U+D807U+DF40", "U+D807U+DF42",
       "U+D807U+DF5A", "U+D80DU+DC30", "U+D80DU+DC31", "U+D80DU+DC32", "U+D80DU+DC33",
       "U+D80DU+DC34", "U+D80DU+DC35", "U+D80DU+DC36", "U+D80DU+DC37", "U+D80DU+DC38",
       "U+D80DU+DC39", "U+D80DU+DC3A", "U+D80DU+DC3B", "U+D80DU+DC3C", "U+D80DU+DC3D",
       "U+D80DU+DC3E", "U+D80DU+DC3F", "U+D80DU+DC40", "U+D80DU+DC47", "U+D80DU+DC48",
       "U+D80DU+DC49", "U+D80DU+DC4A", "U+D80DU+DC4B", "U+D80DU+DC4C", "U+D80DU+DC4D",
       "U+D80DU+DC4E", "U+D80DU+DC4F", "U+D80DU+DC50", "U+D80DU+DC51", "U+D80DU+DC52",
       "U+D80DU+DC53", "U+D80DU+DC54", "U+D80DU+DC55", "U+D818U+DD1E", "U+D818U+DD1F",
       "U+D818U+DD20", "U+D818U+DD21", "U+D818U+DD22", "U+D818U+DD23", "U+D818U+DD24",
       "U+D818U+DD25", "U+D818U+DD26", "U+D818U+DD27", "U+D818U+DD28", "U+D818U+DD29",
       "U+D818U+DD2D", "U+D818U+DD2E", "U+D818U+DD2F", "U+D81AU+DEF0", "U+D81AU+DEF1",
       "U+D81AU+DEF2", "U+D81AU+DEF3", "U+D81AU+DEF4", "U+D81AU+DF30", "U+D81AU+DF31",
       "U+D81AU+DF32", "U+D81AU+DF33", "U+D81AU+DF34", "U+D81AU+DF35", "U+D81AU+DF36",
       "U+D81AU+DF40", "U+D81AU+DF41", "U+D81AU+DF42", "U+D81AU+DF43", "U+D81BU+DD40",
       "U+D81BU+DD41", "U+D81BU+DD42", "U+D81BU+DD6B", "U+D81BU+DD6C", "U+D81BU+DF4F",
       "U+D81BU+DF8F", "U+D81BU+DF90", "U+D81BU+DF91", "U+D81BU+DF92", "U+D81BU+DF93",
       "U+D81BU+DF94", "U+D81BU+DF95", "U+D81BU+DF96", "U+D81BU+DF97", "U+D81BU+DF98",
       "U+D81BU+DF99", "U+D81BU+DF9A", "U+D81BU+DF9B", "U+D81BU+DF9C", "U+D81BU+DF9D",
       "U+D81BU+DF9E", "U+D81BU+DF9F", "U+D81BU+DFE0", "U+D81BU+DFE1", "U+D81BU+DFE3",
       "U+D81BU+DFE4", "U+D81BU+DFF2", "U+D81BU+DFF3", "U+D82BU+DFF0", "U+D82BU+DFF1",
       "U+D82BU+DFF2", "U+D82BU+DFF3", "U+D82BU+DFF5", "U+D82BU+DFF6", "U+D82BU+DFF7",
       "U+D82BU+DFF8", "U+D82BU+DFF9", "U+D82BU+DFFA", "U+D82BU+DFFB", "U+D82BU+DFFD",
       "U+D82BU+DFFE", "U+D82FU+DC9D", "U+D82FU+DC9E", "U+D82FU+DCA0", "U+D82FU+DCA1",
       "U+D82FU+DCA2", "U+D82FU+DCA3", "U+D833U+DF00", "U+D833U+DF01", "U+D833U+DF02",
       "U+D833U+DF03", "U+D833U+DF04", "U+D833U+DF05", "U+D833U+DF06", "U+D833U+DF07",
       "U+D833U+DF08", "U+D833U+DF09", "U+D833U+DF0A", "U+D833U+DF0B", "U+D833U+DF0C",
       "U+D833U+DF0D", "U+D833U+DF0E", "U+D833U+DF0F", "U+D833U+DF10", "U+D833U+DF11",
       "U+D833U+DF12", "U+D833U+DF13", "U+D833U+DF14", "U+D833U+DF15", "U+D833U+DF16",
       "U+D833U+DF17", "U+D833U+DF18", "U+D833U+DF19", "U+D833U+DF1A", "U+D833U+DF1B",
       "U+D833U+DF1C", "U+D833U+DF1D", "U+D833U+DF1E", "U+D833U+DF1F", "U+D833U+DF20",
       "U+D833U+DF21", "U+D833U+DF22", "U+D833U+DF23", "U+D833U+DF24", "U+D833U+DF25",
       "U+D833U+DF26", "U+D833U+DF27", "U+D833U+DF28", "U+D833U+DF29", "U+D833U+DF2A",
       "U+D833U+DF2B", "U+D833U+DF2C", "U+D833U+DF2D", "U+D833U+DF30", "U+D833U+DF31",
       "U+D833U+DF32", "U+D833U+DF33", "U+D833U+DF34", "U+D833U+DF35", "U+D833U+DF36",
       "U+D833U+DF37", "U+D833U+DF38", "U+D833U+DF39", "U+D833U+DF3A", "U+D833U+DF3B",
       "U+D833U+DF3C", "U+D833U+DF3D", "U+D833U+DF3E", "U+D833U+DF3F", "U+D833U+DF40",
       "U+D833U+DF41", "U+D833U+DF42", "U+D833U+DF43", "U+D833U+DF44", "U+D833U+DF45",
       "U+D833U+DF46", "U+D834U+DD67", "U+D834U+DD68", "U+D834U+DD69", "U+D834U+DD73",
       "U+D834U+DD74", "U+D834U+DD75", "U+D834U+DD76", "U+D834U+DD77", "U+D834U+DD78",
       "U+D834U+DD79", "U+D834U+DD7A", "U+D834U+DD7B", "U+D834U+DD7C", "U+D834U+DD7D",
       "U+D834U+DD7E", "U+D834U+DD7F", "U+D834U+DD80", "U+D834U+DD81", "U+D834U+DD82",
       "U+D834U+DD85", "U+D834U+DD86", "U+D834U+DD87", "U+D834U+DD88", "U+D834U+DD89",
       "U+D834U+DD8A", "U+D834U+DD8B", "U+D834U+DDAA", "U+D834U+DDAB", "U+D834U+DDAC",
       "U+D834U+DDAD", "U+D834U+DE42", "U+D834U+DE43", "U+D834U+DE44", "U+D836U+DE00",
       "U+D836U+DE01", "U+D836U+DE02", "U+D836U+DE03", "U+D836U+DE04", "U+D836U+DE05",
       "U+D836U+DE06", "U+D836U+DE07", "U+D836U+DE08", "U+D836U+DE09", "U+D836U+DE0A",
       "U+D836U+DE0B", "U+D836U+DE0C", "U+D836U+DE0D", "U+D836U+DE0E", "U+D836U+DE0F",
       "U+D836U+DE10", "U+D836U+DE11", "U+D836U+DE12", "U+D836U+DE13", "U+D836U+DE14",
       "U+D836U+DE15", "U+D836U+DE16", "U+D836U+DE17", "U+D836U+DE18", "U+D836U+DE19",
       "U+D836U+DE1A", "U+D836U+DE1B", "U+D836U+DE1C", "U+D836U+DE1D", "U+D836U+DE1E",
       "U+D836U+DE1F", "U+D836U+DE20", "U+D836U+DE21", "U+D836U+DE22", "U+D836U+DE23",
       "U+D836U+DE24", "U+D836U+DE25", "U+D836U+DE26", "U+D836U+DE27", "U+D836U+DE28",
       "U+D836U+DE29", "U+D836U+DE2A", "U+D836U+DE2B", "U+D836U+DE2C", "U+D836U+DE2D",
       "U+D836U+DE2E", "U+D836U+DE2F", "U+D836U+DE30", "U+D836U+DE31", "U+D836U+DE32",
       "U+D836U+DE33", "U+D836U+DE34", "U+D836U+DE35", "U+D836U+DE36", "U+D836U+DE3B",
       "U+D836U+DE3C", "U+D836U+DE3D", "U+D836U+DE3E", "U+D836U+DE3F", "U+D836U+DE40",
       "U+D836U+DE41", "U+D836U+DE42", "U+D836U+DE43", "U+D836U+DE44", "U+D836U+DE45",
       "U+D836U+DE46", "U+D836U+DE47", "U+D836U+DE48", "U+D836U+DE49", "U+D836U+DE4A",
       "U+D836U+DE4B", "U+D836U+DE4C", "U+D836U+DE4D", "U+D836U+DE4E", "U+D836U+DE4F",
       "U+D836U+DE50", "U+D836U+DE51", "U+D836U+DE52", "U+D836U+DE53", "U+D836U+DE54",
       "U+D836U+DE55", "U+D836U+DE56", "U+D836U+DE57", "U+D836U+DE58", "U+D836U+DE59",
       "U+D836U+DE5A", "U+D836U+DE5B", "U+D836U+DE5C", "U+D836U+DE5D", "U+D836U+DE5E",
       "U+D836U+DE5F", "U+D836U+DE60", "U+D836U+DE61", "U+D836U+DE62", "U+D836U+DE63",
       "U+D836U+DE64", "U+D836U+DE65", "U+D836U+DE66", "U+D836U+DE67", "U+D836U+DE68",
       "U+D836U+DE69", "U+D836U+DE6A", "U+D836U+DE6B", "U+D836U+DE6C", "U+D836U+DE75",
       "U+D836U+DE84", "U+D836U+DE9B", "U+D836U+DE9C", "U+D836U+DE9D", "U+D836U+DE9E",
       "U+D836U+DE9F", "U+D836U+DEA1", "U+D836U+DEA2", "U+D836U+DEA3", "U+D836U+DEA4",
       "U+D836U+DEA5", "U+D836U+DEA6", "U+D836U+DEA7", "U+D836U+DEA8", "U+D836U+DEA9",
       "U+D836U+DEAA", "U+D836U+DEAB", "U+D836U+DEAC", "U+D836U+DEAD", "U+D836U+DEAE",
       "U+D836U+DEAF", "U+D838U+DC00", "U+D838U+DC01", "U+D838U+DC02", "U+D838U+DC03",
       "U+D838U+DC04", "U+D838U+DC05", "U+D838U+DC06", "U+D838U+DC08", "U+D838U+DC09",
       "U+D838U+DC0A", "U+D838U+DC0B", "U+D838U+DC0C", "U+D838U+DC0D", "U+D838U+DC0E",
       "U+D838U+DC0F", "U+D838U+DC10", "U+D838U+DC11", "U+D838U+DC12", "U+D838U+DC13",
       "U+D838U+DC14", "U+D838U+DC15", "U+D838U+DC16", "U+D838U+DC17", "U+D838U+DC18",
       "U+D838U+DC1B", "U+D838U+DC1C", "U+D838U+DC1D", "U+D838U+DC1E", "U+D838U+DC1F",
       "U+D838U+DC20", "U+D838U+DC21", "U+D838U+DC23", "U+D838U+DC24", "U+D838U+DC26",
       "U+D838U+DC27", "U+D838U+DC28", "U+D838U+DC29", "U+D838U+DC2A", "U+D838U+DC30",
       "U+D838U+DC31", "U+D838U+DC32", "U+D838U+DC33", "U+D838U+DC34", "U+D838U+DC35",
       "U+D838U+DC36", "U+D838U+DC37", "U+D838U+DC38", "U+D838U+DC39", "U+D838U+DC3A",
       "U+D838U+DC3B", "U+D838U+DC3C", "U+D838U+DC3D", "U+D838U+DC3E", "U+D838U+DC3F",
       "U+D838U+DC40", "U+D838U+DC41", "U+D838U+DC42", "U+D838U+DC43", "U+D838U+DC44",
       "U+D838U+DC45", "U+D838U+DC46", "U+D838U+DC47", "U+D838U+DC48", "U+D838U+DC49",
       "U+D838U+DC4A", "U+D838U+DC4B", "U+D838U+DC4C", "U+D838U+DC4D", "U+D838U+DC4E",
       "U+D838U+DC4F", "U+D838U+DC50", "U+D838U+DC51", "U+D838U+DC52", "U+D838U+DC53",
       "U+D838U+DC54", "U+D838U+DC55", "U+D838U+DC56", "U+D838U+DC57", "U+D838U+DC58",
       "U+D838U+DC59", "U+D838U+DC5A", "U+D838U+DC5B", "U+D838U+DC5C", "U+D838U+DC5D",
       "U+D838U+DC5E", "U+D838U+DC5F", "U+D838U+DC60", "U+D838U+DC61", "U+D838U+DC62",
       "U+D838U+DC63", "U+D838U+DC64", "U+D838U+DC65", "U+D838U+DC66", "U+D838U+DC67",
       "U+D838U+DC68", "U+D838U+DC69", "U+D838U+DC6A", "U+D838U+DC6B", "U+D838U+DC6C",
       "U+D838U+DC6D", "U+D838U+DC8F", "U+D838U+DD30", "U+D838U+DD31", "U+D838U+DD32",
       "U+D838U+DD33", "U+D838U+DD34", "U+D838U+DD35", "U+D838U+DD36", "U+D838U+DD37",
       "U+D838U+DD38", "U+D838U+DD39", "U+D838U+DD3A", "U+D838U+DD3B", "U+D838U+DD3C",
       "U+D838U+DD3D", "U+D838U+DEAE", "U+D838U+DEEC", "U+D838U+DEED", "U+D838U+DEEE",
       "U+D838U+DEEF", "U+D839U+DCEB", "U+D839U+DCEC", "U+D839U+DCED", "U+D839U+DCEE",
       "U+D839U+DCEF", "U+D839U+DDEE", "U+D839U+DDEF", "U+D839U+DEE3", "U+D839U+DEE6",
       "U+D839U+DEEE", "U+D839U+DEEF", "U+D839U+DEF5", "U+D839U+DEFF", "U+D83AU+DCD0",
       "U+D83AU+DCD1", "U+D83AU+DCD2", "U+D83AU+DCD3", "U+D83AU+DCD4", "U+D83AU+DCD5",
       "U+D83AU+DCD6", "U+D83AU+DD44", "U+D83AU+DD45", "U+D83AU+DD46", "U+D83AU+DD47",
       "U+D83AU+DD48", "U+D83AU+DD49", "U+D83AU+DD4A", "U+D83AU+DD4B", "U+D83CU+DFFB",
       "U+D83CU+DFFC", "U+D83CU+DFFD", "U+D83CU+DFFE", "U+D83CU+DFFF", "U+DB40U+DC01",
       "U+DB40U+DC20", "U+DB40U+DC21", "U+DB40U+DC22", "U+DB40U+DC23", "U+DB40U+DC24",
       "U+DB40U+DC25", "U+DB40U+DC26", "U+DB40U+DC27", "U+DB40U+DC28", "U+DB40U+DC29",
       "U+DB40U+DC2A", "U+DB40U+DC2B", "U+DB40U+DC2C", "U+DB40U+DC2D", "U+DB40U+DC2E",
       "U+DB40U+DC2F", "U+DB40U+DC30", "U+DB40U+DC31", "U+DB40U+DC32", "U+DB40U+DC33",
       "U+DB40U+DC34", "U+DB40U+DC35", "U+DB40U+DC36", "U+DB40U+DC37", "U+DB40U+DC38",
       "U+DB40U+DC39", "U+DB40U+DC3A", "U+DB40U+DC3B", "U+DB40U+DC3C", "U+DB40U+DC3D",
       "U+DB40U+DC3E", "U+DB40U+DC3F", "U+DB40U+DC40", "U+DB40U+DC41", "U+DB40U+DC42",
       "U+DB40U+DC43", "U+DB40U+DC44", "U+DB40U+DC45", "U+DB40U+DC46", "U+DB40U+DC47",
       "U+DB40U+DC48", "U+DB40U+DC49", "U+DB40U+DC4A", "U+DB40U+DC4B", "U+DB40U+DC4C",
       "U+DB40U+DC4D", "U+DB40U+DC4E", "U+DB40U+DC4F", "U+DB40U+DC50", "U+DB40U+DC51",
       "U+DB40U+DC52", "U+DB40U+DC53", "U+DB40U+DC54", "U+DB40U+DC55", "U+DB40U+DC56",
       "U+DB40U+DC57", "U+DB40U+DC58", "U+DB40U+DC59", "U+DB40U+DC5A", "U+DB40U+DC5B",
       "U+DB40U+DC5C", "U+DB40U+DC5D", "U+DB40U+DC5E", "U+DB40U+DC5F", "U+DB40U+DC60",
       "U+DB40U+DC61", "U+DB40U+DC62", "U+DB40U+DC63", "U+DB40U+DC64", "U+DB40U+DC65",
       "U+DB40U+DC66", "U+DB40U+DC67", "U+DB40U+DC68", "U+DB40U+DC69", "U+DB40U+DC6A",
       "U+DB40U+DC6B", "U+DB40U+DC6C", "U+DB40U+DC6D", "U+DB40U+DC6E", "U+DB40U+DC6F",
       "U+DB40U+DC70", "U+DB40U+DC71", "U+DB40U+DC72", "U+DB40U+DC73", "U+DB40U+DC74",
       "U+DB40U+DC75", "U+DB40U+DC76", "U+DB40U+DC77", "U+DB40U+DC78", "U+DB40U+DC79",
       "U+DB40U+DC7A", "U+DB40U+DC7B", "U+DB40U+DC7C", "U+DB40U+DC7D", "U+DB40U+DC7E",
       "U+DB40U+DC7F", "U+DB40U+DD00", "U+DB40U+DD01", "U+DB40U+DD02", "U+DB40U+DD03",
       "U+DB40U+DD04", "U+DB40U+DD05", "U+DB40U+DD06", "U+DB40U+DD07", "U+DB40U+DD08",
       "U+DB40U+DD09", "U+DB40U+DD0A", "U+DB40U+DD0B", "U+DB40U+DD0C", "U+DB40U+DD0D",
       "U+DB40U+DD0E", "U+DB40U+DD0F", "U+DB40U+DD10", "U+DB40U+DD11", "U+DB40U+DD12",
       "U+DB40U+DD13", "U+DB40U+DD14", "U+DB40U+DD15", "U+DB40U+DD16", "U+DB40U+DD17",
       "U+DB40U+DD18", "U+DB40U+DD19", "U+DB40U+DD1A", "U+DB40U+DD1B", "U+DB40U+DD1C",
       "U+DB40U+DD1D", "U+DB40U+DD1E", "U+DB40U+DD1F", "U+DB40U+DD20", "U+DB40U+DD21",
       "U+DB40U+DD22", "U+DB40U+DD23", "U+DB40U+DD24", "U+DB40U+DD25", "U+DB40U+DD26",
       "U+DB40U+DD27", "U+DB40U+DD28", "U+DB40U+DD29", "U+DB40U+DD2A", "U+DB40U+DD2B",
       "U+DB40U+DD2C", "U+DB40U+DD2D", "U+DB40U+DD2E", "U+DB40U+DD2F", "U+DB40U+DD30",
       "U+DB40U+DD31", "U+DB40U+DD32", "U+DB40U+DD33", "U+DB40U+DD34", "U+DB40U+DD35",
       "U+DB40U+DD36", "U+DB40U+DD37", "U+DB40U+DD38", "U+DB40U+DD39", "U+DB40U+DD3A",
       "U+DB40U+DD3B", "U+DB40U+DD3C", "U+DB40U+DD3D", "U+DB40U+DD3E", "U+DB40U+DD3F",
       "U+DB40U+DD40", "U+DB40U+DD41", "U+DB40U+DD42", "U+DB40U+DD43", "U+DB40U+DD44",
       "U+DB40U+DD45", "U+DB40U+DD46", "U+DB40U+DD47", "U+DB40U+DD48", "U+DB40U+DD49",
       "U+DB40U+DD4A", "U+DB40U+DD4B", "U+DB40U+DD4C", "U+DB40U+DD4D", "U+DB40U+DD4E",
       "U+DB40U+DD4F", "U+DB40U+DD50", "U+DB40U+DD51", "U+DB40U+DD52", "U+DB40U+DD53",
       "U+DB40U+DD54", "U+DB40U+DD55", "U+DB40U+DD56", "U+DB40U+DD57", "U+DB40U+DD58",
       "U+DB40U+DD59", "U+DB40U+DD5A", "U+DB40U+DD5B", "U+DB40U+DD5C", "U+DB40U+DD5D",
       "U+DB40U+DD5E", "U+DB40U+DD5F", "U+DB40U+DD60", "U+DB40U+DD61", "U+DB40U+DD62",
       "U+DB40U+DD63", "U+DB40U+DD64", "U+DB40U+DD65", "U+DB40U+DD66", "U+DB40U+DD67",
       "U+DB40U+DD68", "U+DB40U+DD69", "U+DB40U+DD6A", "U+DB40U+DD6B", "U+DB40U+DD6C",
       "U+DB40U+DD6D", "U+DB40U+DD6E", "U+DB40U+DD6F", "U+DB40U+DD70", "U+DB40U+DD71",
       "U+DB40U+DD72", "U+DB40U+DD73", "U+DB40U+DD74", "U+DB40U+DD75", "U+DB40U+DD76",
       "U+DB40U+DD77", "U+DB40U+DD78", "U+DB40U+DD79", "U+DB40U+DD7A", "U+DB40U+DD7B",
       "U+DB40U+DD7C", "U+DB40U+DD7D", "U+DB40U+DD7E", "U+DB40U+DD7F", "U+DB40U+DD80",
       "U+DB40U+DD81", "U+DB40U+DD82", "U+DB40U+DD83", "U+DB40U+DD84", "U+DB40U+DD85",
       "U+DB40U+DD86", "U+DB40U+DD87", "U+DB40U+DD88", "U+DB40U+DD89", "U+DB40U+DD8A",
       "U+DB40U+DD8B", "U+DB40U+DD8C", "U+DB40U+DD8D", "U+DB40U+DD8E", "U+DB40U+DD8F",
       "U+DB40U+DD90", "U+DB40U+DD91", "U+DB40U+DD92", "U+DB40U+DD93", "U+DB40U+DD94",
       "U+DB40U+DD95", "U+DB40U+DD96", "U+DB40U+DD97", "U+DB40U+DD98", "U+DB40U+DD99",
       "U+DB40U+DD9A", "U+DB40U+DD9B", "U+DB40U+DD9C", "U+DB40U+DD9D", "U+DB40U+DD9E",
       "U+DB40U+DD9F", "U+DB40U+DDA0", "U+DB40U+DDA1", "U+DB40U+DDA2", "U+DB40U+DDA3",
       "U+DB40U+DDA4", "U+DB40U+DDA5", "U+DB40U+DDA6", "U+DB40U+DDA7", "U+DB40U+DDA8",
       "U+DB40U+DDA9", "U+DB40U+DDAA", "U+DB40U+DDAB", "U+DB40U+DDAC", "U+DB40U+DDAD",
       "U+DB40U+DDAE", "U+DB40U+DDAF", "U+DB40U+DDB0", "U+DB40U+DDB1", "U+DB40U+DDB2",
       "U+DB40U+DDB3", "U+DB40U+DDB4", "U+DB40U+DDB5", "U+DB40U+DDB6", "U+DB40U+DDB7",
       "U+DB40U+DDB8", "U+DB40U+DDB9", "U+DB40U+DDBA", "U+DB40U+DDBB", "U+DB40U+DDBC",
       "U+DB40U+DDBD", "U+DB40U+DDBE", "U+DB40U+DDBF", "U+DB40U+DDC0", "U+DB40U+DDC1",
       "U+DB40U+DDC2", "U+DB40U+DDC3", "U+DB40U+DDC4", "U+DB40U+DDC5", "U+DB40U+DDC6",
       "U+DB40U+DDC7", "U+DB40U+DDC8", "U+DB40U+DDC9", "U+DB40U+DDCA", "U+DB40U+DDCB",
       "U+DB40U+DDCC", "U+DB40U+DDCD", "U+DB40U+DDCE", "U+DB40U+DDCF", "U+DB40U+DDD0",
       "U+DB40U+DDD1", "U+DB40U+DDD2", "U+DB40U+DDD3", "U+DB40U+DDD4", "U+DB40U+DDD5",
       "U+DB40U+DDD6", "U+DB40U+DDD7", "U+DB40U+DDD8", "U+DB40U+DDD9", "U+DB40U+DDDA",
       "U+DB40U+DDDB", "U+DB40U+DDDC", "U+DB40U+DDDD", "U+DB40U+DDDE", "U+DB40U+DDDF",
       "U+DB40U+DDE0", "U+DB40U+DDE1", "U+DB40U+DDE2", "U+DB40U+DDE3", "U+DB40U+DDE4",
       "U+DB40U+DDE5", "U+DB40U+DDE6", "U+DB40U+DDE7", "U+DB40U+DDE8", "U+DB40U+DDE9",
       "U+DB40U+DDEA", "U+DB40U+DDEB", "U+DB40U+DDEC", "U+DB40U+DDED", "U+DB40U+DDEE",
       "U+DB40U+DDEF" }
CasedPairs ==
    { "U+D801U+DC00", "U+D801U+DC01", "U+D801U+DC02", "U+D801U+DC03", "U+D801U+DC04",
       "U+D801U+DC05", "U+D801U+DC06", "U+D801U+DC07", "U+D801U+DC08", "U+D801U+DC09",
       "U+D801U+DC0A", "U+D801U+DC0B", "U+D801U+DC0C", "U+D801U+DC0D", "U+D801U+DC0E",
       "U+D801U+DC0F", "U+D801U+DC10", "U+D801U+DC11", "U+D801U+DC12", "U+D801U+DC13",
       "U+D801U+DC14", "U+D801U+DC15", "U+D801U+DC16", "U+D801U+DC17", "U+D801U+DC18",
       "U+D801U+DC19", "U+D801U+DC1A", "U+D801U+DC1B", "U+D801U+DC1C", "U+D801U+DC1D",
       "U+D801U+DC1E", "U+D801U+DC1F", "U+D801U+DC20", "U+D801U+DC21", "U+D801U+DC22",
       "U+D801U+DC23", "U+D801U+DC24", "U+D801U+DC25", "U+D801U+DC26", "U+D801U+DC27",
       "U+D801U+DC28", "U+D801U+DC29", "U+D801U+DC2A", "U+D801U+DC2B", "U+D801U+DC2C",
       "U+D801U+DC2D", "U+D801U+DC2E", "U+D801U+DC2F", "U+D801U+DC30", "U+D801U+DC31",
       "U+D801U+DC32", "U+D801U+DC33", "U+D801U+DC34", "U+D801U+DC35", "U+D801U+DC36",
       "U+D801U+DC37", "U+D801U+DC38", "U+D801U+DC39", "U+D801U+DC3A", "U+D801U+DC3B",
       "U+D801U+DC3C", "U+D801U+DC3D", "U+D801U+DC3E", "U+D801U+DC3F", "U+D801U+DC40",
       "U+D801U+DC41", "U+D801U+DC42", "U+D801U+DC43", "U+D801U+DC44", "U+D801U+DC45",
       "U+D801U+DC46", "U+D801U+DC47", "U+D801U+DC48", "U+D801U+DC49", "U+D801U+DC4A",
       "U+D801U+DC4B", "U+D801U+DC4C", "U+D801U+DC4D", "U+D801U+DC4E", "U+D801U+DC4F",
       "U+D801U+DCB0", "U+D801U+DCB1", "U+D801U+DCB2", "U+D801U+DCB3", "U+D801U+DCB4",
       "U+D801U+DCB5", "U+D801U+DCB6", "U+D801U+DCB7", "U+D801U+DCB8", "U+D801U+DCB9",
       "U+D801U+DCBA", "U+D801U+DCBB", "U+D801U+DCBC", "U+D801U+DCBD", "U+D801U+DCBE",
       "U+D801U+DCBF", "U+D801U+DCC0", "U+D801U+DCC1", "U+D801U+DCC2", "U+D801U+DCC3",
       "U+D801U+DCC4", "U+D801U+DCC5", "U+D801U+DCC6", "U+D801U+DCC7", "U+D801U+DCC8",
       "U+D801U+DCC9", "U+D801U+DCCA", "U+D801U+DCCB", "U+D801U+DCCC", "U+D801U+DCCD",
       "U+D801U+DCCE", "U+D801U+DCCF", "U+D801U+DCD0", "U+D801U+DCD1", "U+D801U+DCD2",
       "U+D801U+DCD3", "U+D801U+DCD8", "U+D801U+DCD9", "U+D801U+DCDA", "U+D801U+DCDB",
       "U+D801U+DCDC", "U+D801U+DCDD", "U+D801U+DCDE", "U+D801U+DCDF", "U+D801U+DCE0",
       "U+D801U+DCE1", "U+D801U+DCE2", "U+D801U+DCE3", "U+D801U+DCE4", "U+D801U+DCE5",
       "U+D801U+DCE6", "U+D801U+DCE7", "U+D801U+DCE8", "U+D801U+DCE9", "U+D801U+DCEA",
       "U+D801U+DCEB", "U+D801U+DCEC", "U+D801U+DCED", "U+D801U+DCEE", "U+D801U+DCEF",
       "U+D801U+DCF0", "U+D801U+DCF1", "U+D801U+DCF2", "U+D801U+DCF3", "U+D801U+DCF4",
       "U+D801U+DCF5", "U+D801U+DCF6", "U+D801U+DCF7", "U+D801U+DCF8", "U+D801U+DCF9",
       "U+D801U+DCFA", "U+D801U+DCFB", "U+D801U+DD70", "U+D801U+DD71", "U+D801U+DD72",
       "U+D801U+DD73", "U+D801U+DD74", "U+D801U+DD75", "U+D801U+DD76", "U+D801U+DD77",
       "U+D801U+DD78", "U+D801U+DD79", "U+D801U+DD7A", "U+D801U+DD7C", "U+D801U+DD7D",
       "U+D801U+DD7E", "U+D801U+DD7F", "U+D801U+DD80", "U+D801U+DD81", "U+D801U+DD82",
       "U+D801U+DD83", "U+D801U+DD84", "U+D801U+DD85", "U+D801U+DD86", "U+D801U+DD87",
       "U+D801U+DD88", "U+D801U+DD89", "U+D801U+DD8A", "U+D801U+DD8C", "U+D801U+DD8D",
       "U+D801U+DD8E", "U+D801U+DD8F", "U+D801U+DD90", "U+D801U+DD91", "U+D801U+DD92",
       "U+D801U+DD94", "U+D801U+DD95", "U+D801U+DD97", "U+D801U+DD98", "U+D801U+DD99",
       "U+D801U+DD9A", "U+D801U+DD9B", "U+D801U+DD9C", "U+D801U+DD9D", "U+D801U+DD9E",
       "U+D801U+DD9F", "U+D801U+DDA0", "U+D801U+DDA1", "U+D801U+DDA3", "U+D801U+DDA4",
       "U+D801U+DDA5", "U+D801U+DDA6", "U+D801U+DDA7", "U+D801U+DDA8", "U+D801U+DDA9",
       "U+D801U+DDAA", "U+D801U+DDAB", "U+D801U+DDAC", "U+D801U+DDAD", "U+D801U+DDAE",
       "U+D801U+DDAF", "U+D801U+DDB0", "U+D801U+DDB1", "U+D801U+DDB3", "U+D801U+DDB4",
       "U+D801U+DDB5", "U+D801U+DDB6", "U+D801U+DDB7", "U+D801U+DDB8", "U+D801U+DDB9",
       "U+D801U+DDBB", "U+D801U+DDBC", "U+D803U+DC80", "U+D803U+DC81", "U+D803U+DC82",
       "U+D803U+DC83", "U+D803U+DC84", "U+D803U+DC85", "U+D803U+DC86", "U+D803U+DC87",
       "U+D803U+DC88", "U+D803U+DC89", "U+D803U+DC8A", "U+D803U+DC8B", "U+D803U+DC8C",
       "U+D803U+DC8D", "U+D803U+DC8E", "U+D803U+DC8F", "U+D803U+DC90", "U+D803U+DC91",
       "U+D803U+DC92", "U+D803U+DC93", "U+D803U+DC94", "U+D803U+DC95", "U+D803U+DC96",
       "U+D803U+DC97", "U+D803U+DC98", "U+D803U+DC99", "U+D803U+DC9A", "U+D803U+DC9B",
       "U+D803U+DC9C", "U+D803U+DC9D", "U+D803U+DC9E", "U+D803U+DC9F", "U+D803U+DCA0",
       "U+D803U+DCA1", "U+D803U+DCA2", "U+D803U+DCA3", "U+D803U+DCA4", "U+D803U+DCA5",
       "U+D803U+DCA6", "U+D803U+DCA7", "U+D803U+DCA8", "U+D803U+DCA9", "U+D803U+DCAA",
       "U+D803U+DCAB", "U+D803U+DCAC", "U+D803U+DCAD", "U+D803U+DCAE", "U+D803U+DCAF",
       "U+D803U+DCB0", "U+D803U+DCB1", "U+D803U+DCB2", "U+D803U+DCC0", "U+D803U+DCC1",
       "U+D803U+DCC2", "U+D803U+DCC3", "U+D803U+DCC4", "U+D803U+DCC5", "U+D803U+DCC6",
       "U+D803U+DCC7", "U+D803U+DCC8", "U+D803U+DCC9", "U+D803U+DCCA", "U+D803U+DCCB",
       "U+D803U+DCCC", "U+D803U+DCCD", "U+D803U+DCCE", "U+D803U+DCCF", "U+D803U+DCD0",
       "U+D803U+DCD1", "U+D803U+DCD2", "U+D803U+DCD3", "U+D803U+DCD4", "U+D803U+DCD5",
       "U+D803U+DCD6", "U+D803U+DCD7", "U+D803U+DCD8", "U+D803U+DCD9", "U+D803U+DCDA",
       "U+D803U+DCDB", "U+D803U+DCDC", "U+D803U+DCDD", "U+D803U+DCDE", "U+D803U+DCDF",
       "U+D803U+DCE0", "U+D803U+DCE1", "U+D803U+DCE2", "U+D803U+DCE3", "U+D803U+DCE4",
       "U+D803U+DCE5", "U+D803U+DCE6", "U+D803U+DCE7", "U+D803U+DCE8", "U+D803U+DCE9",
       "U+D803U+DCEA", "U+D803U+DCEB", "U+D803U+DCEC", "U+D803U+DCED", "U+D803U+DCEE",
       "U+D803U+DCEF", "U+D803U+DCF0", "U+D803U+DCF1", "U+D803U+DCF2", "U+D803U+DD50",
       "U+D803U+DD51", "U+D803U+DD52", "U+D803U+DD53", "U+D803U+DD54", "U+D803U+DD55",
       "U+D803U+DD56", "U+D803U+DD57", "U+D803U+DD58", "U+D803U+DD59", "U+D803U+DD5A",
       "U+D803U+DD5B", "U+D803U+DD5C", "U+D803U+DD5D", "U+D803U+DD5E", "U+D803U+DD5F",
       "U+D803U+DD60", "U+D803U+DD61", "U+D803U+DD62", "U+D803U+DD63", "U+D803U+DD64",
       "U+D803U+DD65", "U+D803U+DD70", "U+D803U+DD71", "U+D803U+DD72", "U+D803U+DD73",
       "U+D803U+DD74", "U+D803U+DD75", "U+D803U+DD76", "U+D803U+DD77", "U+D803U+DD78",
       "U+D803U+DD79", "U+D803U+DD7A", "U+D803U+DD7B", "U+D803U+DD7C", "U+D803U+DD7D",
       "U+D803U+DD7E", "U+D803U+DD7F", "U+D803U+DD80", "U+D803U+DD81", "U+D803U+DD82",
       "U+D803U+DD83", "U+D803U+DD84", "U+D803U+DD85", "U+D806U+DCA0", "U+D806U+DCA1",
       "U+D806U+DCA2", "U+D806U+DCA3", "U+D806U+DCA4", "U+D806U+DCA5", "U+D806U+DCA6",
       "U+D806U+DCA7", "U+D806U+DCA8", "U+D806U+DCA9", "U+D806U+DCAA", "U+D806U+DCAB",
       "U+D806U+DCAC", "U+D806U+DCAD", "U+D806U+DCAE", "U+D806U+DCAF", "U+D806U+DCB0",
       "U+D806U+DCB1", "U+D806U+DCB2", "U+D806U+DCB3", "U+D806U+DCB4", "U+D806U+DCB5",
       "U+D806U+DCB6", "U+D806U+DCB7", "U+D806U+DCB8", "U+D806U+DCB9", "U+D806U+DCBA",
       "U+D806U+DCBB", "U+D806U+DCBC", "U+D806U+DCBD", "U+D806U+DCBE", "U+D806U+DCBF",
       "U+D806U+DCC0", "U+D806U+DCC1", "U+D806U+DCC2", "U+D806U+DCC3", "U+D806U+DCC4",
       "U+D806U+DCC5", "U+D806U+DCC6", "U+D806U+DCC7", "U+D806U+DCC8", "U+D806U+DCC9",
       "U+D806U+DCCA", "U+D806U+DCCB", "U+D806U+DCCC", "U+D806U+DCCD", "U+D806U+DCCE",
       "U+D806U+DCCF", "U+D806U+DCD0", "U+D806U+DCD1", "U+D806U+DCD2", "U+D806U+DCD3",
       "U+D806U+DCD4", "U+D806U+DCD5", "U+D806U+DCD6", "U+D806U+DCD7", "U+D806U+DCD8",
       "U+D806U+DCD9", "U+D806U+DCDA", "U+D806U+DCDB", "U+D806U+DCDC", "U+D806U+DCDD",
       "U+D806U+DCDE", "U+D806U+DCDF", "U+D81BU+DE40", "U+D81BU+DE41", "U+D81BU+DE42",
       "U+D81BU+DE43", "U+D81BU+DE44", "U+D81BU+DE45", "U+D81BU+DE46", "U+D81BU+DE47",
       "U+D81BU+DE48", "U+D81BU+DE49", "U+D81BU+DE4A", "U+D81BU+DE4B", "U+D81BU+DE4C",
       "U+D81BU+DE4D", "U+D81BU+DE4E", "U+D81BU+DE4F", "U+D81BU+DE50", "U+D81BU+DE51",
       "U+D81BU+DE52", "U+D81BU+DE53", "U+D81BU+DE54", "U+D81BU+DE55", "U+D81BU+DE56",
       "U+D81BU+DE57", "U+D81BU+DE58", "U+D81BU+DE59", "U+D81BU+DE5A", "U+D81BU+DE5B",
       "U+D81BU+DE5C", "U+D81BU+DE5D", "U+D81BU+DE5E", "U+D81BU+DE5F", "U+D81BU+DE60",
       "U+D81BU+DE61", "U+D81BU+DE62", "U+D81BU+DE63", "U+D81BU+DE64", "U+D81BU+DE65",
       "U+D81BU+DE66", "U+D81BU+DE67", "U+D81BU+DE68", "U+D81BU+DE69", "U+D81BU+DE6A",
       "U+D81BU+DE6B", "U+D81BU+DE6C", "U+D81BU+DE6D", "U+D81BU+DE6E", "U+D81BU+DE6F",
       "U+D81BU+DE70", "U+D81BU+DE71", "U+D81BU+DE72", "U+D81BU+DE73", "U+D81BU+DE74",
       "U+D81BU+DE75", "U+D81BU+DE76", "U+D81BU+DE77", "U+D81BU+DE78", "U+D81BU+DE79",
       "U+D81BU+DE7A", "U+D81BU+DE7B", "U+D81BU+DE7C", "U+D81BU+DE7D", "U+D81BU+DE7E",
       "U+D81BU+DE7F", "U+D81BU+DEA0", "U+D81BU+DEA1", "U+D81BU+DEA2", "U+D81BU+DEA3",
       "U+D81BU+DEA4", "U+D81BU+DEA5", "U+D81BU+DEA6", "U+D81BU+DEA7", "U+D81BU+DEA8",
       "U+D81BU+DEA9", "U+D81BU+DEAA", "U+D81BU+DEAB", "U+D81BU+DEAC", "U+D81BU+DEAD",
       "U+D81BU+DEAE", "U+D81BU+DEAF", "U+D81BU+DEB0", "U+D81BU+DEB1", "U+D81BU+DEB2",
       "U+D81BU+DEB3", "U+D81BU+DEB4", "U+D81BU+DEB5", "U+D81BU+DEB6", "U+D81BU+DEB7",
       "U+D81BU+DEB8", "U+D81BU+DEBB", "U+D81BU+DEBC", "U+D81BU+DEBD", "U+D81BU+DEBE",
       "U+D81BU+DEBF", "U+D81BU+DEC0", "U+D81BU+DEC1", "U+D81BU+DEC2", "U+D81BU+DEC3",
       "U+D81BU+DEC4", "U+D81BU+DEC5", "U+D81BU+DEC6", "U+D81BU+DEC7", "U+D81BU+DEC8",
       "U+D81BU+DEC9", "U+D81BU+DECA", "U+D81BU+DECB", "U+D81BU+DECC", "U+D81BU+DECD",
       "U+D81BU+DECE", "U+D81BU+DECF", "U+D81BU+DED0", "U+D81BU+DED1", "U+D81BU+DED2",
       "U+D81BU+DED3", "U+D835U+DC00", "U+D835U+DC01", "U+D835U+DC02", "U+D835U+DC03",
       "U+D835U+DC04", "U+D835U+DC05", "U+D835U+DC06", "U+D835U+DC07", "U+D835U+DC08",
       "U+D835U+DC09", "U+D835U+DC0A", "U+D835U+DC0B", "U+D835U+DC0C", "U+D835U+DC0D",
       "U+D835U+DC0E", "U+D835U+DC0F", "U+D835U+DC10", "U+D835U+DC11", "U+D835U+DC12",
       "U+D835U+DC13", "U+D835U+DC14", "U+D835U+DC15", "U+D835U+DC16", "U+D835U+DC17",
       "U+D835U+DC18", "U+D835U+DC19", "U+D835U+DC1A", "U+D835U+DC1B", "U+D835U+DC1C",
       "U+D835U+DC1D", "U+D835U+DC1E", "U+D835U+DC1F", "U+D835U+DC20", "U+D835U+DC21",
       "U+D835U+DC22", "U+D835U+DC23", "U+D835U+DC24", "U+D835U+DC25", "U+D835U+DC26",
       "U+D835U+DC27", "U+D835U+DC28", "U+D835U+DC29", "U+D835U+DC2A", "U+D835U+DC2B",
       "U+D835U+DC2C", "U+D835U+DC2D", "U+D835U+DC2E", "U+D835U+DC2F", "U+D835U+DC30",
       "U+D835U+DC31", "U+D835U+DC32", "U+D835U+DC33", "U+D835U+DC34", "U+D835U+DC35",
       "U+D835U+DC36", "U+D835U+DC37", "U+D835U+DC38", "U+D835U+DC39", "U+D835U+DC3A",
       "U+D835U+DC3B", "U+D835U+DC3C", "U+D835U+DC3D", "U+D835U+DC3E", "U+D835U+DC3F",
       "U+D835U+DC40", "U+D835U+DC41", "U+D835U+DC42", "U+D835U+DC43", "U+D835U+DC44",
       "U+D835U+DC45", "U+D835U+DC46", "U+D835U+DC47", "U+D835U+DC48", "U+D835U+DC49",
       "U+D835U+DC4A", "U+D835U+DC4B", "U+D835U+DC4C", "U+D835U+DC4D", "U+D835U+DC4E",
       "U+D835U+DC4F", "U+D835U+DC50", "U+D835U+DC51", "U+D835U+DC52", "U+D835U+DC53",
       "U+D835U+DC54", "U+D835U+DC56", "U+D835U+DC57", "U+D835U+DC58", "U+D835U+DC59",
       "U+D835U+DC5A", "U+D835U+DC5B", "U+D835U+DC5C", "U+D835U+DC5D", "U+D835U+DC5E",
       "U+D835U+DC5F", "U+D835U+DC60", "U+D835U+DC61", "U+D835U+DC62", "U+D835U+DC63",
       "U+D835U+DC64", "U+D835U+DC65", "U+D835U+DC66", "U+D835U+DC67", "U+D835U+DC68",
       "U+D835U+DC69", "U+D835U+DC6A", "U+D835U+DC6B", "U+D835U+DC6C", "U+D835U+DC6D",
       "U+D835U+DC6E", "U+D835U+DC6F", "U+D835U+DC70", "U+D835U+DC71", "U+D835U+DC72",
       "U+D835U+DC73", "U+D835U+DC74", "U+D835U+DC75", "U+D835U+DC76", "U+D835U+DC77",
       "U+D835U+DC78", "U+D835U+DC79", "U+D835U+DC7A", "U+D835U+DC7B", "U+D835U+DC7C",
       "U+D835U+DC7D", "U+D835U+DC7E", "U+D835U+DC7F", "U+D835U+DC80", "U+D835U+DC81",
       "U+D835U+DC82", "U+D835U+DC83", "U+D835U+DC84", "U+D835U+DC85", "U+D835U+DC86",
       "U+D835U+DC87", "U+D835U+DC88", "U+D835U+DC89", "U+D835U+DC8A", "U+D835U+DC8B",
       "U+D835U+DC8C", "U+D835U+DC8D", "U+D835U+DC8E", "U+D835U+DC8F", "U+D835U+DC90",
       "U+D835U+DC91", "U+D835U+DC92", "U+D835U+DC93", "U+D835U+DC94", "U+D835U+DC95",
       "U+D835U+DC96", "U+D835U+DC97", "U+D835U+DC98", "U+D835U+DC99", "U+D835U+DC9A",
       "U+D835U+DC9B", "U+D835U+DC9C", "U+D835U+DC9E", "U+D835U+DC9F", "U+D835U+DCA2",
       "U+D835U+DCA5", "U+D835U+DCA6", "U+D835U+DCA9", "U+D835U+DCAA", "U+D835U+DCAB",
       "U+D835U+DCAC", "U+D835U+DCAE", "U+D835U+DCAF", "U+D835U+DCB0", "U+D835U+DCB1",
       "U+D835U+DCB2", "U+D835U+DCB3", "U+D835U+DCB4", "U+D835U+DCB5", "U+D835U+DCB6",
       "U+D835U+DCB7", "U+D835U+DCB8", "U+D835U+DCB9", "U+D835U+DCBB", "U+D835U+DCBD",
       "U+D835U+DCBE", "U+D835U+DCBF", "U+D835U+DCC0", "U+D835U+DCC1", "U+D835U+DCC2",
       "U+D835U+DCC3", "U+D835U+DCC5", "U+D835U+DCC6", "U+D835U+DCC7", "U+D835U+DCC8",
       "U+D835U+DCC9", "U+D835U+DCCA", "U+D835U+DCCB", "U+D835U+DCCC", "U+D835U+DCCD",
       "U+D835U+DCCE", "U+D835U+DCCF", "U+D835U+DCD0", "U+D835U+DCD1", "U+D835U+DCD2",
       "U+D835U+DCD3", "U+D835U+DCD4", "U+D835U+DCD5", "U+D835U+DCD6", "U+D835U+DCD7",
       "U+D835U+DCD8", "U+D835U+DCD9", "U+D835U+DCDA", "U+D835U+DCDB", "U+D835U+DCDC",
       "U+D835U+DCDD", "U+D835U+DCDE", "U+D835U+DCDF", "U+D835U+DCE0", "U+D835U+DCE1",
       "U+D835U+DCE2", "U+D835U+DCE3", "U+D835U+DCE4", "U+D835U+DCE5", "U+D835U+DCE6",
       "U+D835U+DCE7", "U+D835U+DCE8", "U+D835U+DCE9", "U+D835U+DCEA", "U+D835U+DCEB",
       "U+D835U+DCEC", "U+D835U+DCED", "U+D835U+DCEE", "U+D835U+DCEF", "U+D835U+DCF0",
       "U+D835U+DCF1", "U+D835U+DCF2", "U+D835U+DCF3", "U+D835U+DCF4", "U+D835U+DCF5",
       "U+D835U+DCF6", "U+D835U+DCF7", "U+D835U+DCF8", "U+D835U+DCF9", "U+D835U+DCFA",
       "U+D835U+DCFB", "U+D835U+DCFC", "U+D835U+DCFD", "U+D835U+DCFE", "U+D835U+DCFF",
       "U+D835U+DD00", "U+D835U+DD01", "U+D835U+DD02", "U+D835U+DD03", "U+D835U+DD04",
       "U+D835U+DD05", "U+D835U+DD07", "U+D835U+DD08", "U+D835U+DD09", "U+D835U+DD0A",
       "U+D835U+DD0D", "U+D835U+DD0E", "U+D835U+DD0F", "U+D835U+DD10", "U+D835U+DD11",
       "U+D835U+DD12", "U+D835U+DD13", "U+D835U+DD14", "U+D835U+DD16", "U+D835U+DD17",
       "U+D835U+DD18", "U+D835U+DD19", "U+D835U+DD1A", "U+D835U+DD1B", "U+D835U+DD1C",
       "U+D835U+DD1E", "U+D835U+DD1F", "U+D835U+DD20", "U+D835U+DD21", "U+D835U+DD22",
       "U+D835U+DD23", "U+D835U+DD24", "U+D835U+DD25", "U+D835U+DD26", "U+D835U+DD27",
       "U+D835U+DD28", "U+D835U+DD29", "U+D835U+DD2A", "U+D835U+DD2B", "U+D835U+DD2C",
       "U+D835U+DD2D", "U+D835U+DD2E", "U+D835U+DD2F", "U+D835U+DD30", "U+D835U+DD31",
       "U+D835U+DD32", "U+D835U+DD33", "U+D835U+DD34", "U+D835U+DD35", "U+D835U+DD36",
       "U+D835U+DD37", "U+D835U+DD38", "U+D835U+DD39", "U+D835U+DD3B", "U+D835U+DD3C",
       "U+D835U+DD3D", "U+D835U+DD3E", "U+D835U+DD40", "U+D835U+DD41", "U+D835U+DD42",
       "U+D835U+DD43", "U+D835U+DD44", "U+D835U+DD46", "U+D835U+DD4A", "U+D835U+DD4B",
       "U+D835U+DD4C", "U+D835U+DD4D", "U+D835U+DD4E", "U+D835U+DD4F", "U+D835U+DD50",
       "U+D835U+DD52", "U+D835U+DD53", "U+D835U+DD54", "U+D835U+DD55", "U+D835U+DD56",
       "U+D835U+DD57", "U+D835U+DD58", "U+D835U+DD59", "U+D835U+DD5A", "U+D835U+DD5B",
       "U+D835U+DD5C", "U+D835U+DD5D", "U+D835U+DD5E", "U+D835U+DD5F", "U+D835U+DD60",
       "U+D835U+DD61", "U+D835U+DD62", "U+D835U+DD63", "U+D835U+DD64", "U+D835U+DD65",
       "U+D835U+DD66", "U+D835U+DD67", "U+D835U+DD68", "U+D835U+DD69", "U+D835U+DD6A",
       "U+D835U+DD6B", "U+D835U+DD6C", "U+D835U+DD6D", "U+D835U+DD6E", "U+D835U+DD6F",
       "U+D835U+DD70", "U+D835U+DD71", "U+D835U+DD72", "U+D835U+DD73", "U+D835U+DD74",
       "U+D835U+DD75", "U+D835U+DD76", "U+D835U+DD77", "U+D835U+DD78", "U+D835U+DD79",
       "U+D835U+DD7A", "U+D835U+DD7B", "U+D835U+DD7C", "U+D835U+DD7D", "U+D835U+DD7E",
       "U+D835U+DD7F", "U+D835U+DD80", "U+D835U+DD81", "U+D835U+DD82", "U+D835U+DD83",
       "U+D835U+DD84", "U+D835U+DD85", "U+D835U+DD86", "U+D835U+DD87", "U+D835U+DD88",
       "U+D835U+DD89", "U+D835U+DD8A", "U+D835U+DD8B", "U+D835U+DD8C", "U+D835U+DD8D",
       "U+D835U+DD8E", "U+D835U+DD8F", "U+D835U+DD90", "U+D835U+DD91", "U+D835U+DD92",
       "U+D835U+DD93", "U+D835U+DD94", "U+D835U+DD95", "U+D835U+DD96", "U+D835U+DD97",
       "U+D835U+DD98", "U+D835U+DD99", "U+D835U+DD9A", "U+D835U+DD9B", "U+D835U+DD9C",
       "U+D835U+DD9D", "U+D835U+DD9E", "U+D835U+DD9F", "U+D835U+DDA0", "U+D835U+DDA1",
       "U+D835U+DDA2", "U+D835U+DDA3", "U+D835U+DDA4", "U+D835U+DDA5", "U+D835U+DDA6",
       "U+D835U+DDA7", "U+D835U+DDA8", "U+D835U+DDA9", "U+D835U+DDAA", "U+D835U+DDAB",
       "U+D835U+DDAC", "U+D835U+DDAD", "U+D835U+DDAE", "U+D835U+DDAF", "U+D835U+DDB0",
       "U+D835U+DDB1", "U+D835U+DDB2", "U+D835U+DDB3", "U+D835U+DDB4", "U+D835U+DDB5",
       "U+D835U+DDB6", "U+D835U+DDB7", "U+D835U+DDB8", "U+D835U+DDB9", "U+D835U+DDBA",
       "U+D835U+DDBB", "U+D835U+DDBC", "U+D835U+DDBD", "U+D835U+DDBE", "U+D835U+DDBF",
       "U+D835U+DDC0", "U+D835U+DDC1", "U+D835U+DDC2", "U+D835U+DDC3", "U+D835U+DDC4",
       "U+D835U+DDC5", "U+D835U+DDC6", "U+D835U+DDC7", "U+D835U+DDC8", "U+D835U+DDC9",
       "U+D835U+DDCA", "U+D835U+DDCB", "U+D835U+DDCC", "U+D835U+DDCD", "U+D835U+DDCE",
       "U+D835U+DDCF", "U+D835U+DDD0", "U+D835U+DDD1", "U+D835U+DDD2", "U+D835U+DDD3",
       "U+D835U+DDD4", "U+D835U+DDD5", "U+D835U+DDD6", "U+D835U+DDD7", "U+D835U+DDD8",
       "U+D835U+DDD9", "U+D835U+DDDA", "U+D835U+DDDB", "U+D835U+DDDC", "U+D835U+DDDD",
       "U+D835U+DDDE", "U+D835U+DDDF", "U+D835U+DDE0", "U+D835U+DDE1", "U+D835U+DDE2",
       "U+D835U+DDE3", "U+D835U+DDE4", "U+D835U+DDE5", "U+D835U+DDE6", "U+D835U+DDE7",
       "U+D835U+DDE8", "U+D835U+DDE9", "U+D835U+DDEA", "U+D835U+DDEB", "U+D835U+DDEC",
       "U+D835U+DDED", "U+D835U+DDEE", "U+D835U+DDEF", "U+D835U+DDF0", "U+D835U+DDF1",
       "U+D835U+DDF2", "U+D835U+DDF3", "U+D835U+DDF4", "U+D835U+DDF5", "U+D835U+DDF6",
       "U+D835U+DDF7", "U+D835U+DDF8", "U+D835U+DDF9", "U+D835U+DDFA", "U+D835U+DDFB",
       "U+D835U+DDFC", "U+D835U+DDFD", "U+D835U+DDFE", "U+D835U+DDFF", "U+D835U+DE00",
       "U+D835U+DE01", "U+D835U+DE02", "U+D835U+DE03", "U+D835U+DE04", "U+D835U+DE05",
       "U+D835U+DE06", "U+D835U+DE07", "U+D835U+DE08", "U+D835U+DE09", "U+D835U+DE0A",
       "U+D835U+DE0B", "U+D835U+DE0C", "U+D835U+DE0D", "U+D835U+DE0E", "U+D835U+DE0F",
       "U+D835U+DE10", "U+D835U+DE11", "U+D835U+DE12", "U+D835U+DE13", "U+D835U+DE14",
       "U+D835U+DE15", "U+D835U+DE16", "U+D835U+DE17", "U+D835U+DE18", "U+D835U+DE19",
       "U+D835U+DE1A", "U+D835U+DE1B", "U+D835U+DE1C", "U+D835U+DE1D", "U+D835U+DE1E",
       "U+D835U+DE1F", "U+D835U+DE20", "U+D835U+DE21", "U+D835U+DE22", "U+D835U+DE23",
       "U+D835U+DE24", "U+D835U+DE25", "U+D835U+DE26", "U+D835U+DE27", "U+D835U+DE28",
       "U+D835U+DE29", "U+D835U+DE2A", "U+D835U+DE2B", "U+D835U+DE2C", "U+D835U+DE2D",
       "U+D835U+DE2E", "U+D835U+DE2F", "U+D835U+DE30", "U+D835U+DE31", "U+D835U+DE32",
       "U+D835U+DE33", "U+D835U+DE34", "U+D835U+DE35", "U+D835U+DE36", "U+D835U+DE37",
       "U+D835U+DE38", "U+D835U+DE39", "U+D835U+DE3A", "U+D835U+DE3B", "U+D835U+DE3C",
       "U+D835U+DE3D", "U+D835U+DE3E", "U+D835U+DE3F", "U+D835U+DE40", "U+D835U+DE41",
       "U+D835U+DE42", "U+D835U+DE43", "U+D835U+DE44", "U+D835U+DE45", "U+D835U+DE46",
       "U+D835U+DE47", "U+D835U+DE48", "U+D835U+DE49", "U+D835U+DE4A", "U+D835U+DE4B",
       "U+D835U+DE4C", "U+D835U+DE4D", "U+D835U+DE4E", "U+D835U+DE4F", "U+D835U+DE50",
       "U+D835U+DE51", "U+D835U+DE52", "U+D835U+DE53", "U+D835U+DE54", "U+D835U+DE55",
       "U+D835U+DE56", "U+D835U+DE57", "U+D835U+DE58", "U+D835U+DE59", "U+D835U+DE5A",
       "U+D835U+DE5B", "U+D835U+DE5C", "U+D835U+DE5D", "U+D835U+DE5E", "U+D835U+DE5F",
       "U+D835U+DE60", "U+D835U+DE61", "U+D835U+DE62", "U+D835U+DE63", "U+D835U+DE64",
       "U+D835U+DE65", "U+D835U+DE66", "U+D835U+DE67", "U+D835U+DE68", "U+D835U+DE69",
       "U+D835U+DE6A", "U+D835U+DE6B", "U+D835U+DE6C", "U+D835U+DE6D", "U+D835U+DE6E",
       "U+D835U+DE6F", "U+D835U+DE70", "U+D835U+DE71", "U+D835U+DE72", "U+D835U+DE73",
       "U+D835U+DE74", "U+D835U+DE75", "U+D835U+DE76", "U+D835U+DE77", "U+D835U+DE78",
       "U+D835U+DE79", "U+D835U+DE7A", "U+D835U+DE7B", "U+D835U+DE7C", "U+D835U+DE7D",
       "U+D835U+DE7E", "U+D835U+DE7F", "U+D835U+DE80", "U+D835U+DE81", "U+D835U+DE82",
       "U+D835U+DE83", "U+D835U+DE84", "U+D835U+DE85", "U+D835U+DE86", "U+D835U+DE87",
       "U+D835U+DE88", "U+D835U+DE89", "U+D835U+DE8A", "U+D835U+DE8B", "U+D835U+DE8C",
       "U+D835U+DE8D", "U+D835U+DE8E", "U+D835U+DE8F", "U+D835U+DE90", "U+D835U+DE91",
       "U+D835U+DE92", "U+D835U+DE93", "U+D835U+DE94", "U+D835U+DE95", "U+D835U+DE96",
       "U+D835U+DE97", "U+D835U+DE98", "U+D835U+DE99", "U+D835U+DE9A", "U+D835U+DE9B",
       "U+D835U+DE9C", "U+D835U+DE9D", "U+D835U+DE9E", "U+D835U+DE9F", "U+D835U+DEA0",
       "U+D835U+DEA1", "U+D835U+DEA2", "U+D835U+DEA3", "U+D835U+DEA4", "U+D835U+DEA5",
       "U+D835U+DEA8", "U+D835U+DEA9", "U+D835U+DEAA", "U+D835U+DEAB", "U+D835U+DEAC",
       "U+D835U+DEAD", "U+D835U+DEAE", "U+D835U+DEAF", "U+D835U+DEB0", "U+D835U+DEB1",
       "U+D835U+DEB2", "U+D835U+DEB3", "U+D835U+DEB4", "U+D835U+DEB5", "U+D835U+DEB6",
       "U+D835U+DEB7", "U+D835U+DEB8", "U+D835U+DEB9", "U+D835U+DEBA", "U+D835U+DEBB",
       "U+D835U+DEBC", "U+D835U+DEBD", "U+D835U+DEBE", "U+D835U+DEBF", "U+D835U+DEC0",
       "U+D835U+DEC2", "U+D835U+DEC3", "U+D835U+DEC4", "U+D835U+DEC5", "U+D835U+DEC6",
       "U+D835U+DEC7", "U+D835U+DEC8", "U+D835U+DEC9", "U+D835U+DECA", "U+D835U+DECB",
       "U+D835U+DECC", "U+D835U+DECD", "U+D835U+DECE", "U+D835U+DECF", "U+D835U+DED0",
       "U+D835U+DED1", "U+D835U+DED2", "U+D835U+DED3", "U+D835U+DED4", "U+D835U+DED5",
       "U+D835U+DED6", "U+D835U+DED7", "U+D835U+DED8", "U+D835U+DED9", "U+D835U+DEDA",
       "U+D835U+DEDC", "U+D835U+DEDD", "U+D835U+DEDE", "U+D835U+DEDF", "U+D835U+DEE0",
       "U+D835U+DEE1", "U+D835U+DEE2", "U+D835U+DEE3", "U+D835U+DEE4", "U+D835U+DEE5",
       "U+D835U+DEE6", "U+D835U+DEE7", "U+D835U+DEE8", "U+D835U+DEE9", "U+D835U+DEEA",
       "U+D835U+DEEB", "U+D835U+DEEC", "U+D835U+DEED", "U+D835U+DEEE", "U+D835U+DEEF",
       "U+D835U+DEF0", "U+D835U+DEF1", "U+D835U+DEF2", "U+D835U+DEF3", "U+D835U+DEF4",
       "U+D835U+DEF5", "U+D835U+DEF6", "U+D835U+DEF7", "U+D835U+DEF8", "U+D835U+DEF9",
       "U+D835U+DEFA", "U+D835U+DEFC", "U+D835U+DEFD", "U+D835U+DEFE", "U+D835U+DEFF",
       "U+D835U+DF00", "U+D835U+DF01", "U+D835U+DF02", "U+D835U+DF03", "U+D835U+DF04",
       "U+D835U+DF05", "U+D835U+DF06", "U+D835U+DF07", "U+D835U+DF08", "U+D835U+DF09",
       "U+D835U+DF0A", "U+D835U+DF0B", "U+D835U+DF0C", "U+D835U+DF0D", "U+D835U+DF0E",
       "U+D835U+DF0F", "U+D835U+DF10", "U+D835U+DF11", "U+D835U+DF12", "U+D835U+DF13",
       "U+D835U+DF14", "U+D835U+DF16", "U+D835U+DF17", "U+D835U+DF18", "U+D835U+DF19",
       "U+D835U+DF1A", "U+D835U+DF1B", "U+D835U+DF1C", "U+D835U+DF1D", "U+D835U+DF1E",
       "U+D835U+DF1F", "U+D835U+DF20", "U+D835U+DF21", "U+D835U+DF22", "U+D835U+DF23",
       "U+D835U+DF24", "U+D835U+DF25", "U+D835U+DF26", "U+D835U+DF27", "U+D835U+DF28",
       "U+D835U+DF29", "U+D835U+DF2A", "U+D835U+DF2B", "U+D835U+DF2C", "U+D835U+DF2D",
       "U+D835U+DF2E", "U+D835U+DF2F", "U+D835U+DF30", "U+D835U+DF31", "U+D835U+DF32",
       "U+D835U+DF33", "U+D835U+DF34", "U+D835U+DF36", "U+D835U+DF37", "U+D835U+DF38",
       "U+D835U+DF39", "U+D835U+DF3A", "U+D835U+DF3B", "U+D835U+DF3C", "U+D835U+DF3D",
       "U+D835U+DF3E", "U+D835U+DF3F", "U+D835U+DF40", "U+D835U+DF41", "U+D835U+DF42",
       "U+D835U+DF43", "U+D835U+DF44", "U+D835U+DF45", "U+D835U+DF46", "U+D835U+DF47",
       "U+D835U+DF48", "U+D835U+DF49", "U+D835U+DF4A", "U+D835U+DF4B", "U+D835U+DF4C",
       "U+D835U+DF4D", "U+D835U+DF4E", "U+D835U+DF50", "U+D835U+DF51", "U+D835U+DF52",
       "U+D835U+DF53", "U+D835U+DF54", "U+D835U+DF55", "U+D835U+DF56", "U+D835U+DF57",
       "U+D835U+DF58", "U+D835U+DF59", "U+D835U+DF5A", "U+D835U+DF5B", "U+D835U+DF5C",
       "U+D835U+DF5D", "U+D835U+DF5E", "U+D835U+DF5F", "U+D835U+DF60", "U+D835U+DF61",
       "U+D835U+DF62", "U+D835U+DF63", "U+D835U+DF64", "U+D835U+DF65", "U+D835U+DF66",
       "U+D835U+DF67", "U+D835U+DF68", "U+D835U+DF69", "U+D835U+DF6A", "U+D835U+DF6B",
       "U+D835U+DF6C", "U+D835U+DF6D", "U+D835U+DF6E", "U+D835U+DF70", "U+D835U+DF71",
       "U+D835U+DF72", "U+D835U+DF73", "U+D835U+DF74", "U+D835U+DF75", "U+D835U+DF76",
       "U+D835U+DF77", "U+D835U+DF78", "U+D835U+DF79", "U+D835U+DF7A", "U+D835U+DF7B",
       "U+D835U+DF7C", "U+D835U+DF7D", "U+D835U+DF7E", "U+D835U+DF7F", "U+D835U+DF80",
       "U+D835U+DF81", "U+D835U+DF82", "U+D835U+DF83", "U+D835U+DF84", "U+D835U+DF85",
       "U+D835U+DF86", "U+D835U+DF87", "U+D835U+DF88", "U+D835U+DF8A", "U+D835U+DF8B",
       "U+D835U+DF8C", "U+D835U+DF8D", "U+D835U+DF8E", "U+D835U+DF8F", "U+D835U+DF90",
       "U+D835U+DF91", "U+D835U+DF92", "U+D835U+DF93", "U+D835U+DF94", "U+D835U+DF95",
       "U+D835U+DF96", "U+D835U+DF97", "U+D835U+DF98", "U+D835U+DF99", "U+D835U+DF9A",
       "U+D835U+DF9B", "U+D835U+DF9C", "U+D835U+DF9D", "U+D835U+DF9E", "U+D835U+DF9F",
       "U+D835U+DFA0", "U+D835U+DFA1", "U+D835U+DFA2", "U+D835U+DFA3", "U+D835U+DFA4",
       "U+D835U+DFA5", "U+D835U+DFA6", "U+D835U+DFA7", "U+D835U+DFA8", "U+D835U+DFAA",
       "U+D835U+DFAB", "U+D835U+DFAC", "U+D835U+DFAD", "U+D835U+DFAE", "U+D835U+DFAF",
       "U+D835U+DFB0", "U+D835U+DFB1", "U+D835U+DFB2", "U+D835U+DFB3", "U+D835U+DFB4",
       "U+D835U+DFB5", "U+D835U+DFB6", "U+D835U+DFB7", "U+D835U+DFB8", "U+D835U+DFB9",
       "U+D835U+DFBA", "U+D835U+DFBB", "U+D835U+DFBC", "U+D835U+DFBD", "U+D835U+DFBE",
       "U+D835U+DFBF", "U+D835U+DFC0", "U+D835U+DFC1", "U+D835U+DFC2", "U+D835U+DFC4",
       "U+D835U+DFC5", "U+D835U+DFC6", "U+D835U+DFC7", "U+D835U+DFC8", "U+D835U+DFC9",
       "U+D835U+DFCA", "U+D835U+DFCB", "U+D837U+DF00", "U+D837U+DF01", "U+D837U+DF02",
       "U+D837U+DF03", "U+D837U+DF04", "U+D837U+DF05", "U+D837U+DF06", "U+D837U+DF07",
       "U+D837U+DF08", "U+D837U+DF09", "U+D837U+DF0B", "U+D837U+DF0C", "U+D837U+DF0D",
       "U+D837U+DF0E", "U+D837U+DF0F", "U+D837U+DF10", "U+D837U+DF11", "U+D837U+DF12",
       "U+D837U+DF13", "U+D837U+DF14", "U+D837U+DF15", "U+D837U+DF16", "U+D837U+DF17",
       "U+D837U+DF18", "U+D837U+DF19", "U+D837U+DF1A", "U+D837U+DF1B", "U+D837U+DF1C",
       "U+D837U+DF1D", "U+D837U+DF1E", "U+D837U+DF25", "U+D837U+DF26", "U+D837U+DF27",
       "U+D837U+DF28", "U+D837U+DF29", "U+D837U+DF2A", "U+D83AU+DD00", "U+D83AU+DD01",
       "U+D83AU+DD02", "U+D83AU+DD03", "U+D83AU+DD04", "U+D83AU+DD05", "U+D83AU+DD06",
       "U+D83AU+DD07", "U+D83AU+DD08", "U+D83AU+DD09", "U+D83AU+DD0A", "U+D83AU+DD0B",
       "U+D83AU+DD0C", "U+D83AU+DD0D", "U+D83AU+DD0E", "U+D83AU+DD0F", "U+D83AU+DD10",
       "U+D83AU+DD11", "U+D83AU+DD12", "U+D83AU+DD13", "U+D83AU+DD14", "U+D83AU+DD15",
       "U+D83AU+DD16", "U+D83AU+DD17", "U+D83AU+DD18", "U+D83AU+DD19", "U+D83AU+DD1A",
       "U+D83AU+DD1B", "U+D83AU+DD1C", "U+D83AU+DD1D", "U+D83AU+DD1E", "U+D83AU+DD1F",
       "U+D83AU+DD20", "U+D83AU+DD21", "U+D83AU+DD22", "U+D83AU+DD23", "U+D83AU+DD24",
       "U+D83AU+DD25", "U+D83AU+DD26", "U+D83AU+DD27", "U+D83AU+DD28", "U+D83AU+DD29",
       "U+D83AU+DD2A", "U+D83AU+DD2B", "U+D83AU+DD2C", "U+D83AU+DD2D", "U+D83AU+DD2E",
       "U+D83AU+DD2F", "U+D83AU+DD30", "U+D83AU+DD31", "U+D83AU+DD32", "U+D83AU+DD33",
       "U+D83AU+DD34", "U+D83AU+DD35", "U+D83AU+DD36", "U+D83AU+DD37", "U+D83AU+DD38",
       "U+D83AU+DD39", "U+D83AU+DD3A", "U+D83AU+DD3B", "U+D83AU+DD3C", "U+D83AU+DD3D",
       "U+D83AU+DD3E", "U+D83AU+DD3F", "U+D83AU+DD40", "U+D83AU+DD41", "U+D83AU+DD42",
       "U+D83AU+DD43", "U+D83CU+DD30", "U+D83CU+DD31", "U+D83CU+DD32", "U+D83CU+DD33",
       "U+D83CU+DD34", "U+D83CU+DD35", "U+D83CU+DD36", "U+D83CU+DD37", "U+D83CU+DD38",
       "U+D83CU+DD39", "U+D83CU+DD3A", "U+D83CU+DD3B", "U+D83CU+DD3C", "U+D83CU+DD3D",
       "U+D83CU+DD3E", "U+D83CU+DD3F", "U+D83CU+DD40", "U+D83CU+DD41", "U+D83CU+DD42",
       "U+D83CU+DD43", "U+D83CU+DD44", "U+D83CU+DD45", "U+D83CU+DD46", "U+D83CU+DD47",
       "U+D83CU+DD48", "U+D83CU+DD49", "U+D83CU+DD50", "U+D83CU+DD51", "U+D83CU+DD52",
       "U+D83CU+DD53", "U+D83CU+DD54", "U+D83CU+DD55", "U+D83CU+DD56", "U+D83CU+DD57",
       "U+D83CU+DD58", "U+D83CU+DD59", "U+D83CU+DD5A", "U+D83CU+DD5B", "U+D83CU+DD5C",
       "U+D83CU+DD5D", "U+D83CU+DD5E", "U+D83CU+DD5F", "U+D83CU+DD60", "U+D83CU+DD61",
       "U+D83CU+DD62", "U+D83CU+DD63", "U+D83CU+DD64", "U+D83CU+DD65", "U+D83CU+DD66",
       "U+D83CU+DD67", "U+D83CU+DD68", "U+D83CU+DD69", "U+D83CU+DD70", "U+D83CU+DD71",
       "U+D83CU+DD72", "U+D83CU+DD73", "U+D83CU+DD74", "U+D83CU+DD75", "U+D83CU+DD76",
       "U+D83CU+DD77", "U+D83CU+DD78", "U+D83CU+DD79", "U+D83CU+DD7A", "U+D83CU+DD7B",
       "U+D83CU+DD7C", "U+D83CU+DD7D", "U+D83CU+DD7E", "U+D83CU+DD7F", "U+D83CU+DD80",
       "U+D83CU+DD81", "U+D83CU+DD82", "U+D83CU+DD83", "U+D83CU+DD84", "U+D83CU+DD85",
       "U+D83CU+DD86", "U+D83CU+DD87", "U+D83CU+DD88", "U+D83CU+DD89" }

\* the code units, and the surrogate pairs, that have a lower-case mapping, and
\* where each stands in its table
UpperCaseUnits == {UpperCase[k] : k \in 1..Len(UpperCase)}
UpperCasePairUnits == {UpperCasePairs[k] : k \in 1..Len(UpperCasePairs)}
upperIndex ==
    [c \in UpperCaseUnits |-> CHOOSE k \in 1..Len(UpperCase) : UpperCase[k] = c]
upperPairIndex ==
    [p \in UpperCasePairUnits |->
        CHOOSE k \in 1..Len(UpperCasePairs) : UpperCasePairs[k] = p]

\* String.prototype.toLowerCase, one code unit out of context: U+0130 is the one
\* character lowered to two code units
lowerChar(c) ==
    IF c = "U+0130" THEN <<"i", "U+0307">>
    ELSE IF c \in UpperCaseUnits THEN <<LowerCase[upperIndex[c]]>>
    ELSE <<c>>

\* the code units at k and k + 1 are a surrogate pair of one of these characters
pairAt(s, k, pairs) == k >= 1 /\ k < Len(s) /\ (s[k] \o s[k + 1]) \in pairs

\* Final_Sigma, before: a cased letter, then case-ignorable characters, end at j
RECURSIVE casedBefore(_, _)
casedBefore(s, j) ==
    IF j < 1 THEN FALSE
    ELSE IF pairAt(s, j - 1, CaseIgnorablePairs) THEN casedBefore(s, j - 2)
    ELSE IF pairAt(s, j - 1, CasedPairs) THEN TRUE
    ELSE IF s[j] \in CaseIgnorable THEN casedBefore(s, j - 1)
    ELSE s[j] \in CasedLetters

\* Final_Sigma, after: case-ignorable characters from j, then a cased letter
RECURSIVE casedAfter(_, _)
casedAfter(s, j) ==
    IF j > Len(s) THEN FALSE
    ELSE IF pairAt(s, j, CaseIgnorablePairs) THEN casedAfter(s, j + 2)
    ELSE IF pairAt(s, j, CasedPairs) THEN TRUE
    ELSE IF s[j] \in CaseIgnorable THEN casedAfter(s, j + 1)
    ELSE s[j] \in CasedLetters

\* the capital sigma at k is lowered to the final sigma
finalSigma(s, k) == casedBefore(s, k - 1) /\ ~casedAfter(s, k + 1)

RECURSIVE lowerFrom(_, _)
lowerFrom(s, k) ==
    IF k > Len(s) THEN <<>>
    ELSE IF pairAt(s, k, UpperCasePairUnits)
         THEN <<s[k], LowerCasePairs[upperPairIndex[s[k] \o s[k + 1]]]>> \o lowerFrom(s, k + 2)
    ELSE IF s[k] = "U+03A3"
         THEN <<IF finalSigma(s, k) THEN "U+03C2" ELSE "U+03C3">> \o lowerFrom(s, k + 1)
    ELSE lowerChar(s[k]) \o lowerFrom(s, k + 1)

\* String.prototype.toLowerCase: the locale-independent lower-case mapping of the
\* code points of s, with the two context rules of the default case conversion
toLowerCase(s) == lowerFrom(s, 1)

\* String.prototype.includes: needle occurs in hay (the empty needle always does)
includes(hay, needle) ==
    \E k \in 1..(Len(hay) - Len(needle) + 1) :
        SubSeq(hay, k, k + Len(needle) - 1) = needle

\* the characters the class \s matches: WhiteSpace and LineTerminator
WhiteSpace ==
    {"\t", "\n", "U+000B", "\f", "\r", " ", "U+00A0", "U+1680", "U+2000", "U+2001", "U+2002",
     "U+2003", "U+2004", "U+2005", "U+2006", "U+2007", "U+2008", "U+2009", "U+200A", "U+2028",
     "U+2029", "U+202F", "U+205F", "U+3000", "U+FEFF"}

\* the characters the class [_\-\s] matches
Separators == {"_", "-"} \cup WhiteSpace

\* replace(/[_\-\s]/g, '')
dropSeparators(s) == SelectSeq(s, LAMBDA c : c \notin Separators)

tokOfficial == <<"o", "f", "f", "i", "c", "i", "a", "l">>
tokPindao   == <<"U+9891", "U+9053">>
tokChannel  == <<"c", "h", "a", "n", "n", "e", "l">>

\* the alternatives of /official|U+9891U+9053|channel/gi, in the order the regex tries them
SuffixTokens == <<tokOfficial, tokPindao, tokChannel>>

startsWithAt(s, k, tok) ==
    /\ k + Len(tok) - 1 <= Len(s)
    /\ SubSeq(s, k, k + Len(tok) - 1) = tok

\* replace(/official|..|channel/gi, ''): one left-to-right pass, the first
\* alternative that matches at a position is removed and the scan resumes after it
RECURSIVE stripTokens(_, _)
stripTokens(s, k) ==
    IF k > Len(s) THEN <<>>
    ELSE IF \E t \in 1..Len(SuffixTokens) : startsWithAt(s, k, SuffixTokens[t])
         THEN LET t == CHOOSE t \in 1..Len(SuffixTokens) :
                          /\ startsWithAt(s, k, SuffixTokens[t])
                          /\ \A u \in 1..(t - 1) : ~startsWithAt(s, k, SuffixTokens[u])
              IN stripTokens(s, k + Len(SuffixTokens[t]))
         ELSE <<s[k]>> \o stripTokens(s, k + 1)

normalizeUsername_keepSeparators(username) == stripTokens(toLowerCase(username), 1)

\* normalizeUsername: lowercase, drop separators, drop the suffix tokens
normalizeUsername(username) ==
    stripTokens(dropSeparators(toLowerCase(username)), 1)

(***************************************************************************)
(* stringSimilarity: 1 - levenshtein / max(len1, len2)                     *)
(***************************************************************************)
Min3(a, b, c) == IF a <= b /\ a <= c THEN a ELSE IF b <= c THEN b ELSE c
Max2(a, b) == IF a >= b THEN a ELSE b

\* row i of the matrix from row i-1; cell j of a row is at index j+1
RECURSIVE matrixRow(_, _, _, _, _)
matrixRow(prevRow, currRow, i, str1, str2) ==
    LET j == Len(currRow) IN
    IF j > Len(str2) THEN currRow
    ELSE LET cost == IF str1[i] = str2[j] THEN 0 ELSE 1
             cell == Min3(prevRow[j + 1] + 1, currRow[j] + 1, prevRow[j] + cost)
         IN matrixRow(prevRow, Append(currRow, cell), i, str1, str2)

RECURSIVE lastMatrixRow(_, _, _, _)
lastMatrixRow(prevRow, i, str1, str2) ==
    IF i > Len(str1) THEN prevRow
    ELSE lastMatrixRow(matrixRow(prevRow, <<i>>, i, str1, str2), i + 1, str1, str2)

\* the edit distance: matrix[len1][len2]
levenshtein(str1, str2) ==
    lastMatrixRow([j \in 1..(Len(str2) + 1) |-> j - 1], 1, str1, str2)[Len(str2) + 1]

stringSimilarity_emptyHandled(str1, str2) ==
    IF Len(str1) = 0 /\ Len(str2) = 0 THEN <<1, 1>>
    ELSE <<Max2(Len(str1), Len(str2)) - levenshtein(str1, str2),
           Max2(Len(str1), Len(str2))>>

(***************************************************************************)
(* IEEE-754 doubles. A double near the fraction n/m is a multiple of       *)
(* 2^-p, where p is 52 less the binary exponent of n/m. The operators work *)
(* on remainders modulo m, which stay small, never on the 53-bit           *)
(* significands.                                                           *)
(***************************************************************************)
\* floor(log2(n / m)) for n, m > 0
RECURSIVE exponentOf(_, _)
exponentOf(n, m) ==
    IF n >= 2 * m THEN exponentOf(n, 2 * m) + 1
    ELSE IF n < m THEN exponentOf(2 * n, m) - 1
    ELSE 0

RECURSIVE pow2(_)
pow2(e) == IF e = 0 THEN 1 ELSE 2 * pow2(e - 1)

\* (n * 2^p) modulo M, eight binary places at a time
RECURSIVE shiftMod(_, _, _)
shiftMod(n, p, M) ==
    IF p <= 8 THEN ((n % M) * pow2(p)) % M
    ELSE shiftMod(((n % M) * 256) % M, p - 8, M)

\* n * 2^p = A * m + rem: the remainder, and whether A is odd
scaled(n, m, p) ==
    [rem |-> shiftMod(n, p, m), odd |-> shiftMod(n, p, 2 * m) >= m]

\* round num/den to the nearest integer, a tie going to the one that makes
\* the significand even; odd says the significand is odd at offset 0
roundEven(num, den, odd) ==
    LET f == num \div den
        r == num - f * den
    IN IF 2 * r > den THEN f + 1
       ELSE IF 2 * r < den THEN f
       ELSE IF odd # (f % 2 = 1) THEN f + 1 ELSE f

\* n * 2^p / m rounded to an integer: whether it is rounded up, and the error
\* of the rounded value in units of 1 / (m * 2^p)
nearestFrom(m, p, sc) ==
    [p |-> p, rem |-> sc.rem, odd |-> sc.odd,
     up |-> roundEven(sc.rem, m, sc.odd),
     err |-> IF roundEven(sc.rem, m, sc.odd) = 1 THEN m - sc.rem ELSE 0 - sc.rem]

nearestAt(n, m, p) == nearestFrom(m, p, scaled(n, m, p))

\* the double nearest n/m, n, m > 0: it is n/m + err / (m * 2^p), and it is
\* floor(n * 2^p / m) + up in units of 2^-p
nearest(n, m) ==
    LET p == 52 - exponentOf(n, m) IN nearestAt(n, m, p)

\* 1 - q for the double q nearest distance / maxLen, given the double y nearest
\* (maxLen - distance) / maxLen: the distance of the rounded difference from y
differenceOf(distance, maxLen, q, y) ==
    LET k == IF y.p >= q.p
             THEN (0 - q.err * pow2(y.p - q.p) - y.err) \div maxLen
             ELSE roundEven(y.rem * pow2(q.p - y.p) - q.err,
                            maxLen * pow2(q.p - y.p), y.odd) - y.up
    IN IF k = 0 THEN <<maxLen - distance, maxLen>>
       ELSE <<maxLen - distance, maxLen, k>>

\* 1 - distance / maxLen in doubles, for 0 < distance < maxLen: the quotient is
\* rounded, then the difference is; the result is given by its distance in
\* ulps from the double nearest (maxLen - distance) / maxLen
oneMinusQuotient(distance, maxLen) ==
    LET q == nearest(distance, maxLen)
        y == nearest(maxLen - distance, maxLen)
    IN differenceOf(distance, maxLen, q, y)

\* stringSimilarity: 1 - distance / maxLen; two empty strings give 1 - 0/0,
\* which is NaN
stringSimilarity(str1, str2) ==
    LET maxLen   == Max2(Len(str1), Len(str2))
        distance == levenshtein(str1, str2)
    IN IF maxLen = 0 \/ distance = 0 \/ distance = maxLen
       THEN <<maxLen - distance, maxLen>>
       ELSE oneMinusQuotient(distance, maxLen)

\* a double that is not the double nearest its fraction n/d is <<n, d, k>>: the
\* double k ulps above (k > 0) or below (k < 0) the one nearest n/d
ulps(x) == IF Len(x) = 3 THEN x[3] ELSE 0

\* x >= p/q for a number x and the double nearest p/q (false for NaN)
GE(x, p, q) ==
    x[2] > 0 /\ (x[1] * q > p * x[2] \/ (x[1] * q = p * x[2] /\ ulps(x) >= 0))
\* x = p/q for a number x and the double nearest p/q (false for NaN)
EQ(x, p, q) == x[2] > 0 /\ x[1] * q = p * x[2] /\ ulps(x) = 0

\* confidence += b/100 in IEEE-754 doubles, for a confidence of x[1] hundredths.  Of
\* the sums this program can form, two are not the double nearest the decimal sum:
\* 0.55 + 0.15 = 0.7000000000000001 and 0.3 + 0.15 = 0.44999999999999996
addHundredths(x, b) ==
    IF b = 0 THEN x
    ELSE IF EQ(x, 55, 100) /\ b = 15 THEN <<70, 100, 1>>
    ELSE IF EQ(x, 30, 100) /\ b = 15 THEN <<45, 100, -1>>
    ELSE <<x[1] + b, 100>>

\* the sum and the double nearest the exact confidence, both less a common
\* multiple of 20 units of 2^-53, for the significand S40 modulo 40
level1From(x, y, S40) ==
    LET sum  == roundEven(4 * ((S40 % 20) \div 5) + ((S40 % 20) % 5), 16, S40 >= 20)
        near == roundEven(x[2] * (8 + (S40 % 20) - ulps(x)) - y.err, 20 * x[2], S40 >= 20)
    IN IF x[1] = x[2] THEN <<100 * x[2], 100 * x[2]>>
       ELSE IF sum = near THEN <<95 * x[2] + 5 * x[1], 100 * x[2]>>
       ELSE <<95 * x[2] + 5 * x[1], 100 * x[2], sum - near>>

level1At(x, y) ==
    LET S40 == ((shiftMod(x[1], y.p, 40 * x[2]) \div x[2]) + y.up + ulps(x) + 40) % 40
    IN level1From(x, y, S40)

\* 0.95 + nameSimilarity * 0.05 in doubles, for a nameSimilarity <<n, m, k>> of
\* at least 0.8: the double 0.05 is 1/20 + 1/(5 * 2^56) and the double 0.95 is
\* 19/20 - 1/(5 * 2^52); with S the significand of nameSimilarity in units of
\* 2^-53, the product rounds to 4S/5 + (S mod 5)/5 units of 2^-57 and the sum
\* rounds that to units of 2^-53.  The result is given by its distance in ulps
\* from the double nearest (95m + 5n) / (100m)
level1Confidence(nameSimilarity) ==
    LET y == nearest(nameSimilarity[1], nameSimilarity[2])
    IN level1At(nameSimilarity, y)

\* the product at precision pw against 100 * n/m: the rounded product less the
\* floor of 100 * n * 2^pw / m is o
timesHundredFrom(x, y, pw) ==
    LET sc == scaled(100 * x[1], x[2], pw)
        o  == roundEven(sc.rem * pow2(y.p - pw) + 100 * (y.err + ulps(x) * x[2]),
                        x[2] * pow2(y.p - pw), sc.odd)
    IN o >= 1 \/ (o = 0 /\ sc.rem = 0)

timesHundredAt(x, y, e) ==
    LET pw == IF 100 * x[1] = x[2] * pow2(e) /\ y.err + ulps(x) * x[2] < 0
              THEN 53 - e ELSE 52 - e
    IN timesHundredFrom(x, y, pw)

\* x * 100 in doubles is at least 100 * n/m, for the double x = <<n, m, k>>, n > 0
timesHundredNotBelow(x) ==
    LET y == nearest(x[1], x[2])
        e == exponentOf(100 * x[1], x[2])
    IN timesHundredAt(x, y, e)

\* (x * 100).toFixed(1), in tenths of a percent: the product is a double, and
\* toFixed rounds its exact value, a tie going up; "NaN" for NaN
toFixed1Percent(x) ==
    IF x[2] = 0 THEN "NaN"
    ELSE IF (2000 * x[1]) % (2 * x[2]) # x[2] THEN (2000 * x[1] + x[2]) \div (2 * x[2])
    ELSE (2000 * x[1] - x[2]) \div (2 * x[2]) + (IF timesHundredNotBelow(x) THEN 1 ELSE 0)

(***************************************************************************)
(* checkBioMatch                                                           *)
(***************************************************************************)
patYoutubeCom    == <<"y", "o", "u", "t", "u", "b", "e", ".", "c", "o", "m">>
patYoutuBe       == <<"y", "o", "u", "t", "u", ".", "b", "e">>
patBilibiliCom   == <<"b", "i", "l", "i", "b", "i", "l", "i", ".", "c", "o", "m">>
patBZhan         == <<"b", "U+7AD9">>
patBZhanKongjian == <<"b", "U+7AD9", "U+7A7A", "U+95F4">>

checkBioMatch(biliSign, ytDescription, biliUid, ytChannelId) ==
    LET biliLower == toLowerCase(biliSign)
        ytLower   == toLowerCase(ytDescription)
        ytPatterns   == {toLowerCase(ytChannelId), patYoutubeCom, patYoutuBe}
        biliMentionsYt == \E p \in ytPatterns : includes(biliLower, p)
        biliPatterns == {biliUid, patBilibiliCom, patBZhan, patBZhanKongjian}
        ytMentionsBili == \E p \in biliPatterns : includes(ytLower, p)
    IN biliMentionsYt \/ ytMentionsBili

(***************************************************************************)
(* UserVerifier.verify                                                     *)
(*                                                                         *)
(* A collaborator response is [ok |-> TRUE, value |-> v] when the promise  *)
(* resolves and [ok |-> FALSE, error |-> e] when it rejects.  `api` holds  *)
(* the response of each of the four calls one verify can make.  A result   *)
(* carries two history fields besides those of VerificationResult: `calls` *)
(* (the collaborator calls made, in order) and `threw` (the promise of     *)
(* verify rejected instead of resolving).                                  *)
(***************************************************************************)
Ok(v)   == [ok |-> TRUE, value |-> v]
Err(e)  == [ok |-> FALSE, error |-> e]

emptyMetadata ==
    [bilibiliFollowers |-> Undefined, youtubeSubscribers |-> Undefined,
     usernameSimilarity |-> Undefined, youtubeVerified |-> Undefined,
     bioMatch |-> Undefined, matchingVideos |-> Undefined]

createMapping_manual(biliUser, ytChannel, level, metadata, date) ==
    [bilibiliUid |-> biliUser.uid, bilibiliUsername |-> biliUser.name,
     bilibiliAvatar |-> biliUser.face, youtubeChannelId |-> ytChannel.id,
     youtubeChannelName |-> ytChannel.title, youtubeAvatar |-> ytChannel.thumbnails.high,
     verificationLevel |-> 4, verifiedAt |-> date, verifiedBy |-> "manual",
     metadata |-> metadata]

\* createMapping; `date` is what new Date().toISOString() returns
createMapping(biliUser, ytChannel, level, metadata, date) ==
    [bilibiliUid |-> biliUser.uid, bilibiliUsername |-> biliUser.name,
     bilibiliAvatar |-> biliUser.face, youtubeChannelId |-> ytChannel.id,
     youtubeChannelName |-> ytChannel.title, youtubeAvatar |-> ytChannel.thumbnails.high,
     verificationLevel |-> level, verifiedAt |-> date, verifiedBy |-> "auto",
     metadata |-> metadata]

catchError_rethrow(error, calls) ==
    [threw |-> TRUE, error |-> error, calls |-> calls]

\* the catch block of verify
catchError(error, calls) ==
    [threw |-> FALSE, error |-> Undefined, success |-> FALSE, level |-> 4,
     confidence |-> <<0, 100>>, reasons |-> << <<"Verification failed", error>> >>,
     metadata |-> emptyMetadata, mapping |-> Undefined, calls |-> calls]

returned_allFetched(success, level, confidence, reasons, metadata, mapping, calls) ==
    [threw |-> FALSE, error |-> Undefined, success |-> success, level |-> level,
     confidence |-> confidence, reasons |-> reasons, metadata |-> metadata,
     mapping |-> mapping,
     calls |-> <<"getUserInfo", "getChannel", "getUserVideos", "getChannelVideos">>]

\* a returned VerificationResult
returned(success, level, confidence, reasons, metadata, mapping, calls) ==
    [threw |-> FALSE, error |-> Undefined, success |-> success, level |-> level,
     confidence |-> confidence, reasons |-> reasons, metadata |-> metadata,
     mapping |-> mapping, calls |-> calls]

countMatchingVideos_noBreak(biliVideos, ytVideos) ==
    Cardinality({p \in (1..Len(biliVideos)) \X (1..Len(ytVideos)) :
        GE(stringSimilarity(toLowerCase(biliVideos[p[1]].title),
                            toLowerCase(ytVideos[p[2]].title)), 7, 10)})

\* the inner loop: does some target title, from index y on, reach 0.7 (then break)
RECURSIVE hasMatchingTitle(_, _, _)
hasMatchingTitle(biliVideo, ytVideos, y) ==
    IF y > Len(ytVideos) THEN FALSE
    ELSE IF GE(stringSimilarity(toLowerCase(biliVideo.title),
                                toLowerCase(ytVideos[y].title)), 7, 10)
         THEN TRUE
         ELSE hasMatchingTitle(biliVideo, ytVideos, y + 1)

\* the outer loop, from source index b on: matchingVideos
RECURSIVE matchingFrom(_, _, _)
matchingFrom(biliVideos, ytVideos, b) ==
    IF b > Len(biliVideos) THEN 0
    ELSE (IF hasMatchingTitle(biliVideos[b], ytVideos, 1) THEN 1 ELSE 0)
             + matchingFrom(biliVideos, ytVideos, b + 1)

\* the double loop over the two samples: a source title counts once, at its
\* first target title of similarity >= 0.7
countMatchingVideos(biliVideos, ytVideos) == matchingFrom(biliVideos, ytVideos, 1)

\* 0.5 <= subscriberCount / follower <= 2.0 for two numbers: the quotient of two
\* negative counts is positive; a zero follower count gives an infinity or NaN
ratioInRange(subscriberCount, follower) ==
    LET num  == subscriberCount[1] * follower[2]
        den  == follower[1] * subscriberCount[2]
        sign == IF den < 0 THEN 0 - 1 ELSE 1
    IN /\ subscriberCount[2] > 0 /\ follower[2] > 0 /\ den # 0
       /\ 2 * sign * num >= sign * den
       /\ sign * num <= 2 * sign * den

followerRatioValid_missingPasses(subscriberCount, follower) ==
    \/ subscriberCount = Undefined
    \/ follower = Undefined
    \/ ratioInRange(subscriberCount, follower)

\* followerRatio >= 0.5 && followerRatio <= 2.0 for subscriberCount / follower:
\* an undefined operand and 0/0 give NaN, n/0 gives Infinity, all out of range
followerRatioValid(subscriberCount, follower) ==
    /\ subscriberCount # Undefined
    /\ follower # Undefined
    /\ ratioInRange(subscriberCount, follower)

nameScore_swapped(nameSimilarity) ==
    IF GE(nameSimilarity, 8, 10) THEN 20
    ELSE IF GE(nameSimilarity, 6, 10) THEN 40 ELSE 0

nameScore_moderateAsHigh(nameSimilarity) ==
    IF GE(nameSimilarity, 6, 10) THEN 40 ELSE 0

\* the parts of the level-3 confidence, in hundredths
nameScore(nameSimilarity) ==
    IF GE(nameSimilarity, 8, 10) THEN 40
    ELSE IF GE(nameSimilarity, 6, 10) THEN 20 ELSE 0

videoScore(matchingVideos) ==
    IF matchingVideos >= 3 THEN 30 ELSE IF matchingVideos >= 1 THEN 15 ELSE 0

ratioScore_ignored(valid) == 0

ratioScore(valid) == IF valid THEN 15 ELSE 0

\* the reasons pushed at level 3, in the order of the three if statements
level3Reasons(nameSimilarity, matchingVideos, valid) ==
    (IF GE(nameSimilarity, 8, 10)
       THEN << <<"High username similarity", toFixed1Percent(nameSimilarity)>> >>
     ELSE IF GE(nameSimilarity, 6, 10)
       THEN << <<"Moderate username similarity", toFixed1Percent(nameSimilarity)>> >>
     ELSE <<>>)
    \o (IF matchingVideos >= 3 THEN << <<"matching video titles", matchingVideos>> >>
        ELSE IF matchingVideos >= 1 THEN << <<"matching video title(s)", matchingVideos>> >>
        ELSE <<>>)
    \o (IF valid THEN << <<"Follower count ratio is reasonable">> >> ELSE <<>>)

level4Reasons_manualFirst(reasons) ==
    << <<"Manual review required">> >> \o reasons
        \o << <<"Insufficient confidence for automatic verification">> >>

\* the reasons of the level-4 return
level4Reasons(reasons) ==
    << <<"Insufficient confidence for automatic verification">> >> \o reasons
        \o << <<"Manual review required">> >>

\* levels 3 and 4, given matchingVideos and followerRatioValid
level3Result(biliUser, ytChannel, metadata, matchingVideos, valid, date, calls) ==
    LET nameSimilarity == metadata.usernameSimilarity
        md == [metadata EXCEPT !.matchingVideos = Num(matchingVideos)]
        confidence ==
            addHundredths(addHundredths(addHundredths(<<0, 100>>,
                nameScore(nameSimilarity)), videoScore(matchingVideos)),
                ratioScore(valid))
        reasons == level3Reasons(nameSimilarity, matchingVideos, valid)
    IN IF GE(confidence, 7, 10)
       THEN returned(TRUE, 3, confidence, reasons, md,
                     createMapping(biliUser, ytChannel, 3, md, date), calls)
       ELSE returned(FALSE, 4, confidence, level4Reasons(reasons), md,
                     Undefined, calls)

\* levels 3 and 4: after both content samples were fetched
verifyLevel3(biliUser, ytChannel, metadata, biliVideos, ytVideos, date, calls) ==
    LET matchingVideos == countMatchingVideos(biliVideos, ytVideos)
        valid == followerRatioValid(ytChannel.subscriberCount, biliUser.follower)
    IN level3Result(biliUser, ytChannel, metadata, matchingVideos, valid, date, calls)

\* levels 1 and 2, then the two content fetches, given nameSimilarity and bioMatch
profilesResult(biliUser, ytChannel, api, date, nameSimilarity, bioMatch) ==
    LET md0 == [emptyMetadata EXCEPT !.bilibiliFollowers = biliUser.follower,
                                     !.youtubeSubscribers = ytChannel.subscriberCount]
        md1 == IF ytChannel.verified
               THEN [md0 EXCEPT !.usernameSimilarity = nameSimilarity,
                                !.youtubeVerified = "true"]
               ELSE md0
        md2 == [md1 EXCEPT !.bioMatch = IF bioMatch THEN "true" ELSE "false",
                              !.usernameSimilarity = nameSimilarity]
        c2 == <<"getUserInfo", "getChannel">>
        c3 == Append(c2, "getUserVideos")
        c4 == Append(c3, "getChannelVideos")
    IN IF ytChannel.verified /\ GE(nameSimilarity, 8, 10)
       THEN returned(TRUE, 1, level1Confidence(nameSimilarity),
                     << <<"YouTube channel is verified">>,
                        <<"Username similarity", toFixed1Percent(nameSimilarity)>> >>,
                     md1, createMapping(biliUser, ytChannel, 1, md1, date), c2)
       ELSE IF bioMatch
       THEN returned(TRUE, 2, <<85, 100>>,
                     << <<"Cross-platform bio mentions detected">>,
                        <<"Bio contains platform link">> >>,
                     md2, createMapping(biliUser, ytChannel, 2, md2, date), c2)
       ELSE IF ~api.getUserVideos.ok THEN catchError(api.getUserVideos.error, c3)
       ELSE IF ~api.getChannelVideos.ok THEN catchError(api.getChannelVideos.error, c4)
       ELSE verifyLevel3(biliUser, ytChannel, md2, api.getUserVideos.value,
                         api.getChannelVideos.value, date, c4)

\* levels 1 and 2, then the two content fetches
verifyProfiles(biliUid, ytChannelId, biliUser, ytChannel, api, date) ==
    LET nameSimilarity == stringSimilarity(normalizeUsername(biliUser.name),
                                           normalizeUsername(ytChannel.title))
        bioMatch == checkBioMatch(biliUser.sign, ytChannel.description,
                                  biliUid, ytChannelId)
    IN profilesResult(biliUser, ytChannel, api, date, nameSimilarity, bioMatch)

\* verify(biliUid, ytChannelId), given the collaborators' responses and the clock
verify(biliUid, ytChannelId, api, date) ==
    IF ~api.getUserInfo.ok
    THEN catchError(api.getUserInfo.error, <<"getUserInfo">>)
    ELSE IF ~api.getChannel.ok
    THEN catchError(api.getChannel.error, <<"getUserInfo", "getChannel">>)
    ELSE verifyProfiles(biliUid, ytChannelId, api.getUserInfo.value,
                        api.getChannel.value, api, date)

(***************************************************************************)
(* The verifier on its own: one verify call per behaviour, the arguments   *)
(* and the collaborators' responses drawn from the sets below.             *)
(***************************************************************************)
uid69235 == <<"6", "9", "2", "3", "5">>
uid95303 == <<"9", "5", "3", "0", "3">>
uid111   == <<"1", "1", "1">>
\* an identifier with letters: verify takes any string (USERS_JSON is not validated)
uidAb1   == <<"A", "b", "1">>
chUC1    == <<"U", "C", "1">>
chUC2    == <<"U", "C", "2">>

nameAbCde         == <<"A", "b", "_", "c", "d", "e">>
namePindao        == <<"U+9891", "U+9053">>
\* an accented capital and an ideographic space: normalizes to titleEcole
nameEcole         == <<"U+00C9", "C", "O", "U+3000", "L", "E">>
titleAbcdeChannel == <<"a", "b", "c", "d", "e", " ", "C", "h", "a", "n", "n", "e", "l">>
titleAbcdx        == <<"a", "b", "c", "d", "x">>
titleAbcxy        == <<"a", "b", "c", "x", "y">>
titleAbxyz        == <<"a", "b", "x", "y", "z">>
titleOfficial     == <<"O", "f", "f", "i", "c", "i", "a", "l">>
\* similarities 5/6 and 2/3 to nameAbCde, neither of them a double
titleAbcdex       == <<"a", "b", "c", "d", "e", "x">>
titleAbcdxy       == <<"a", "b", "c", "d", "x", "y">>
titleEcole        == <<"U+00E9", "c", "o", "l", "e">>
\* a capital sigma after a cased letter and a modifier letter (U+10EC5): a final
\* sigma in lower case
nameSigma         == <<"A", "U+D803", "U+DEC5", "U+03A3">>
titleSigma        == <<"a", "U+D803", "U+DEC5", "U+03C2">>
signPlain         == <<"h", "e", "l", "l", "o">>
signYoutubeCom    == <<"Y", "o", "u", "T", "u", "b", "e", ".", "c", "o", "m">>
signChannelId     == <<"m", "y", " ", "u", "c", "1">>
descPlain         == <<"h", "i">>
descBilibiliCom   == <<"B", "i", "l", "i", "B", "i", "l", "i", ".", "c", "o", "m">>
descUid           == <<"u", "i", "d", " ", "6", "9", "2", "3", "5">>
descBZhan         == <<"B", "U+7AD9">>
descAb1           == <<"s", "e", "e", " ", "A", "b", "1">>
videoA            == <<"M", "y", " ", "V", "i", "d", "e", "o", " ", "A">>
videoA3           == <<"m", "y", " ", "v", "i", "x", "x", "x", " ", "a">>
videoA4           == <<"m", "y", " ", "v", "x", "x", "x", "x", " ", "a">>
videoB            == <<"S", "e", "c", "o", "n", "d", " ", "O", "n", "e">>
videoC            == <<"T", "h", "i", "r", "d", " ", "C", "l", "i", "p">>
\* a capital sigma after a letter without case and a spacing mark (U+1171E): not
\* a final sigma; the two titles are 0.75 similar in lower case
videoSigmaB       == <<"B", "U+D805", "U+DF1E", "U+03A3">>
videoSigmaC       == <<"c", "U+D805", "U+DF1E", "U+03C3">>
faceUrl           == <<"f", ".", "j", "p", "g">>
thumbUrl          == <<"t", ".", "j", "p", "g">>

\* a BilibiliUser as getUserInfo returns it
BilibiliUser(uid, name, sign, follower) ==
    [uid |-> uid, name |-> name, face |-> faceUrl, sign |-> sign, follower |-> follower]

\* a YouTubeChannel as getChannel returns it
YouTubeChannel(id, title, description, subscriberCount, verified) ==
    [id |-> id, title |-> title, description |-> description,
     thumbnails |-> [high |-> thumbUrl], subscriberCount |-> subscriberCount,
     verified |-> verified]

Video(title) == [title |-> title]

SampleBiliUsers ==
    {BilibiliUser(uid69235, n, s, f) :
        n \in {nameAbCde, namePindao, nameEcole},
        s \in {signPlain, signYoutubeCom, signChannelId},
        f \in {Num(0), Num(1000)}}

SampleYtChannels ==
    {YouTubeChannel(chUC1, t, d, c, v) :
        t \in {titleAbcdeChannel, titleAbcdx, titleAbcxy, titleAbxyz, titleOfficial,
              titleAbcdex, titleAbcdxy, titleEcole},
        d \in {descPlain, descBilibiliCom, descUid, descBZhan},
        c \in {Undefined, Num(499), Num(500), Num(2000), Num(2001)},
        v \in BOOLEAN}

\* <<source sample, target sample>>
SampleVideos ==
    { << <<>>, <<>> >>,
      << <<Video(videoA)>>, <<Video(videoA3)>> >>,
      << <<Video(videoA)>>, <<Video(videoA4)>> >>,
      << <<Video(videoA), Video(videoB)>>, <<Video(videoA), Video(videoA3)>> >>,
      << <<Video(videoA), Video(videoB), Video(videoC)>>,
         <<Video(videoC), Video(videoB), Video(videoA3)>> >>,
      << <<Video(<<>>)>>, <<Video(<<>>)>> >> }

Collaborators == {"getUserInfo", "getChannel", "getUserVideos", "getChannelVideos"}

\* the rejection of collaborator call f
ApiError(f) == <<"Error: API Error", f>>

\* the state after construction: no verify call made, an empty baseDir, main not
\* started with both stores empty, an idle RateLimiter
\* the delay between calls, in clock ticks (delayMs, 1000 by default)
DelayTicks == 2

\* the handler slots of the submission worker, and how far its clock runs
MaxConcurrent == 2
MaxTime == 3
Idle == [at |-> "idle"]

\* the calls a MappingClient has in progress, the uids asked for, and its clock
MaxLookups == 1
MaxClientTime == 3
ClientUids == {uid111, uid69235}

Init ==
    /\ vIn = Undefined /\ vOut = Undefined
    /\ fs = <<>> /\ inflight = {} /\ lastWrite = <<>> /\ opOut = Undefined
    /\ built = {}
    /\ batch = Undefined
    /\ users = <<>> /\ idx = 0 /\ b2y = <<>> /\ y2b = <<>> /\ results = <<>>
    /\ pc = "start"
    /\ queue = <<>> /\ processing = FALSE /\ loops = {} /\ tasks = <<>>
    /\ sinceCompletion = DelayTicks
    /\ time = 0 /\ kv = Null /\ submissions = [slot \in 1..MaxConcurrent |-> Idle]
    /\ received = 0 /\ admitted = [t \in 0..MaxTime |-> 0] /\ windows = {}
    /\ response = Undefined
    /\ clientTime = 0 /\ b2yIndex = Null
    /\ mappingCache = [uid \in ClientUids |-> Null]
    /\ lookups = [slot \in 1..MaxLookups |-> Idle]
    /\ lookupOut = Undefined
    /\ fetchedLog = [uid \in ClientUids |-> [state |-> "never"]]

\* verify('69235', 'UC1') with every collaborator call resolving
VerifyCall ==
    /\ vOut = Undefined
    /\ \E biliUser \in SampleBiliUsers, ytChannel \in SampleYtChannels, vs \in SampleVideos :
          LET api == [getUserInfo |-> Ok(biliUser), getChannel |-> Ok(ytChannel),
                      getUserVideos |-> Ok(vs[1]), getChannelVideos |-> Ok(vs[2])]
          IN /\ vIn' = [biliUid |-> uid69235, ytChannelId |-> chUC1, api |-> api]
             /\ vOut' = verify(uid69235, chUC1, api, 1)
    /\ UNCHANGED <<shardVars, workflowVars, limiterVars, submitVars, clientVars>>

\* verify('69235', 'UC1') where one collaborator call rejects if it is made
VerifyCallRejected ==
    /\ vOut = Undefined
    /\ \E biliUser \in SampleBiliUsers, ytChannel \in SampleYtChannels, f \in Collaborators :
          LET ok  == [getUserInfo |-> Ok(biliUser), getChannel |-> Ok(ytChannel),
                      getUserVideos |-> Ok(<<Video(videoA)>>),
                      getChannelVideos |-> Ok(<<Video(videoA)>>)]
              api == [ok EXCEPT ![f] = Err(ApiError(f))]
          IN /\ ytChannel.description \in {descPlain, descUid}
             /\ ytChannel.subscriberCount = Num(500)
             /\ vIn' = [biliUid |-> uid69235, ytChannelId |-> chUC1, api |-> api]
             /\ vOut' = verify(uid69235, chUC1, api, 1)
    /\ UNCHANGED <<shardVars, workflowVars, limiterVars, submitVars, clientVars>>

\* verify('69235', 'UC1') on names and titles whose lower case depends on the
\* context of a capital sigma
VerifySigmaCall ==
    /\ vOut = Undefined
    /\ \E name \in {nameSigma, nameAbCde}, title \in {titleSigma, titleAbxyz},
          description \in {descPlain, descUid}, verified \in BOOLEAN,
          vs \in { << <<Video(videoSigmaB)>>, <<Video(videoSigmaC)>> >>,
                   << <<Video(videoSigmaB)>>, <<Video(videoA)>> >> } :
          LET biliUser  == BilibiliUser(uid69235, name, signPlain, Num(1000))
              ytChannel == YouTubeChannel(chUC1, title, description, Num(500), verified)
              api == [getUserInfo |-> Ok(biliUser), getChannel |-> Ok(ytChannel),
                      getUserVideos |-> Ok(vs[1]), getChannelVideos |-> Ok(vs[2])]
          IN /\ vIn' = [biliUid |-> uid69235, ytChannelId |-> chUC1, api |-> api]
             /\ vOut' = verify(uid69235, chUC1, api, 1)
    /\ UNCHANGED <<shardVars, workflowVars, limiterVars, submitVars, clientVars>>

NextVerifier == VerifyCall \/ VerifyCallRejected \/ VerifySigmaCall

SpecVerifier ==
    Init /\ [][NextVerifier]_vars

\* verify(biliUid, 'UC1') for source identifiers of digits and of letters
VerifyIdCall ==
    /\ vOut = Undefined
    /\ \E biliUid \in {uid69235, uidAb1}, name \in {nameAbCde, namePindao},
          title \in {titleAbcdeChannel, titleAbxyz, titleOfficial},
          description \in {descPlain, descUid, descAb1, descBZhan},
          verified \in BOOLEAN,
          vs \in { << <<>>, <<>> >>, << <<Video(videoA)>>, <<Video(videoA3)>> >> } :
          LET biliUser  == BilibiliUser(biliUid, name, signPlain, Num(1000))
              ytChannel == YouTubeChannel(chUC1, title, description, Num(500), verified)
              api == [getUserInfo |-> Ok(biliUser), getChannel |-> Ok(ytChannel),
                      getUserVideos |-> Ok(vs[1]), getChannelVideos |-> Ok(vs[2])]
          IN /\ vIn' = [biliUid |-> biliUid, ytChannelId |-> chUC1, api |-> api]
             /\ vOut' = verify(biliUid, chUC1, api, 1)
    /\ UNCHANGED <<shardVars, workflowVars, limiterVars, submitVars, clientVars>>

NextVerifierIds == VerifyIdCall

SpecVerifierIds ==
    Init /\ [][NextVerifierIds]_vars

(***************************************************************************)
(* The similarity function of the verifier, called on its own.             *)
(***************************************************************************)
MaxStringLen == 3

\* the strings over two letters of length up to MaxStringLen
SampleStrings == UNION {[1..n -> {"a", "b"}] : n \in 0..MaxStringLen}

\* stringSimilarity(str1, str2)
SimilarityCall ==
    /\ vOut = Undefined
    /\ \E str1 \in SampleStrings, str2 \in SampleStrings :
          /\ vIn' = [str1 |-> str1, str2 |-> str2]
          /\ vOut' = [similarity |-> stringSimilarity(str1, str2)]
    /\ UNCHANGED <<shardVars, workflowVars, limiterVars, submitVars, clientVars>>

NextSimilarity == SimilarityCall

SpecSimilarity ==
    Init /\ [][NextSimilarity]_vars

\* C18: the similarity is 1.0 for every pair of identical strings, two empty
\* strings included, and 0 when exactly one of the two strings is empty.
C18_IdenticalAndEmpty ==
    vOut # Undefined =>
        /\ vIn.str1 = vIn.str2 => EQ(vOut.similarity, 1, 1)
        /\ (vIn.str1 = <<>>) # (vIn.str2 = <<>>) => EQ(vOut.similarity, 0, 1)

(***************************************************************************)
(* Properties of verify                                                    *)
(***************************************************************************)
Called == vOut # Undefined

ProfilesFetched == vIn.api.getUserInfo.ok /\ vIn.api.getChannel.ok
AllFetched == \A f \in Collaborators : vIn.api[f].ok

InBiliUser  == vIn.api.getUserInfo.value
InYtChannel == vIn.api.getChannel.value

\* the collaborator calls of this verify that were made and rejected
RejectedCalls ==
    {f \in Collaborators :
        /\ ~vIn.api[f].ok
        /\ \E k \in 1..Len(vOut.calls) : vOut.calls[k] = f}

\* the similarity of the two normalized display names, as the verifier computes it
InNameSimilarity ==
    stringSimilarity(normalizeUsername(InBiliUser.name), normalizeUsername(InYtChannel.title))

\* the bio cross-reference as the specification words it
SourceBioMentionsTarget ==
    \E p \in {toLowerCase(vIn.ytChannelId), patYoutubeCom, patYoutuBe} :
        includes(toLowerCase(InBiliUser.sign), p)
TargetBioMentionsSource ==
    \E p \in {toLowerCase(vIn.biliUid), patBilibiliCom, patBZhan} :
        includes(toLowerCase(InYtChannel.description), p)

\* the number of source titles with a target title of similarity >= 0.7
InMatchingTitles ==
    LET bv == vIn.api.getUserVideos.value
        yv == vIn.api.getChannelVideos.value
    IN Cardinality({b \in 1..Len(bv) : \E y \in 1..Len(yv) :
           GE(stringSimilarity(toLowerCase(bv[b].title), toLowerCase(yv[y].title)), 7, 10)})

\* target audience / source audience lies in [0.5, 2.0]; a missing count disables it
InRatioReasonable ==
    LET c == InYtChannel.subscriberCount
        f == InBiliUser.follower
    IN /\ c # Undefined /\ f # Undefined /\ f[1] > 0
       /\ 2 * c[1] >= f[1] /\ c[1] <= 2 * f[1]

InNamePart  == IF GE(InNameSimilarity, 8, 10) THEN 40
               ELSE IF GE(InNameSimilarity, 6, 10) THEN 20 ELSE 0
InTitlePart == IF InMatchingTitles >= 3 THEN 30
               ELSE IF InMatchingTitles >= 1 THEN 15 ELSE 0
InRatioPart == IF InRatioReasonable THEN 15 ELSE 0
\* the sum of the three signals, in hundredths
InScore == InNamePart + InTitlePart + InRatioPart
\* the same sum accumulated in doubles, name then titles then ratio
InFloatScore ==
    addHundredths(addHundredths(addHundredths(<<0, 100>>, InNamePart), InTitlePart),
                  InRatioPart)

\* C1: verify never throws; a collaborator call that was made and rejected gives
\* success = false, level = 4, confidence = 0 and a reason that carries the error
C1_VerifyNeverThrows ==
    Called =>
        /\ ~vOut.threw
        /\ \A f \in RejectedCalls :
              /\ vOut.success = FALSE
              /\ vOut.level = 4
              /\ EQ(vOut.confidence, 0, 1)
              /\ \E k \in 1..Len(vOut.reasons) :
                    vOut.reasons[k] = <<"Verification failed", vIn.api[f].error>>

\* C1 witness: a content fetch rejected after both profiles were fetched
C1_Witness ==
    /\ Called
    /\ ProfilesFetched
    /\ "getChannelVideos" \in RejectedCalls
    /\ ~vOut.threw /\ vOut.level = 4

\* C6: level 1 exactly when both profiles were fetched, the target is verified and
\* the name similarity is >= 0.8, then with success and confidence 0.95 + 0.05 * sim;
\* a verified target whose normalized name equals the source's is level 1, >= 0.95
C6_Level1 ==
    (Called /\ ProfilesFetched) =>
        /\ (vOut.level = 1) <=> (InYtChannel.verified /\ GE(InNameSimilarity, 8, 10))
        /\ (vOut.level = 1) =>
              /\ vOut.success
              /\ vOut.confidence[1] * 100 * InNameSimilarity[2]
                    = (95 * InNameSimilarity[2] + 5 * InNameSimilarity[1])
                          * vOut.confidence[2]
              /\ GE(vOut.confidence, 95, 100)
              /\ ~GE(vOut.confidence, 101, 100)
        /\ (/\ InYtChannel.verified
            /\ normalizeUsername(InBiliUser.name) = normalizeUsername(InYtChannel.title))
              => (vOut.level = 1 /\ GE(vOut.confidence, 95, 100))

\* C7: with level 1 not reached, a bio cross-reference in either direction,
\* compared without regard to case, gives success, level 2 and confidence 0.85;
\* without one the result is never level 2
C7_Level2 ==
    (Called /\ ProfilesFetched /\ vOut.level # 1) =>
        /\ (SourceBioMentionsTarget \/ TargetBioMentionsSource) =>
              (vOut.success /\ vOut.level = 2 /\ EQ(vOut.confidence, 85, 100))
        /\ ~(SourceBioMentionsTarget \/ TargetBioMentionsSource) => vOut.level # 2

\* C8: with levels 1 and 2 not reached and every fetch resolving, the confidence is
\* the sum of the name, title and ratio parts, and level 3 succeeds iff it is >= 0.7
C8_Level3Score ==
    (Called /\ AllFetched /\ vOut.level \notin {1, 2}) =>
        /\ vOut.confidence = InFloatScore
        /\ (vOut.success /\ vOut.level = 3) <=> (InScore >= 70)

\* C8 witness: 0.4 + 0.15 + 0.15 reaches level 3 at the threshold, as the double
\* 0.7000000000000001
C8_Witness ==
    /\ Called /\ AllFetched
    /\ vOut.level = 3
    /\ vOut.confidence = <<70, 100, 1>>
    /\ InNamePart = 40 /\ InTitlePart = 15 /\ InRatioPart = 15

\* the tags of the level-3 reasons in the order of the three signals
ExpectedSignalTags ==
    (IF InNamePart = 40 THEN <<"High username similarity">>
     ELSE IF InNamePart = 20 THEN <<"Moderate username similarity">> ELSE <<>>)
    \o (IF InTitlePart = 30 THEN <<"matching video titles">>
        ELSE IF InTitlePart = 15 THEN <<"matching video title(s)">> ELSE <<>>)
    \o (IF InRatioPart = 15 THEN <<"Follower count ratio is reasonable">> ELSE <<>>)

\* C9: when no level succeeds and no fetch fails the result is success = false,
\* level 4, the level-3 partial sum (< 0.7), and reasons that end with the
\* manual-review entry after the level-3 reasons in their order
C9_Level4 ==
    (Called /\ AllFetched /\ vOut.level \notin {1, 2, 3}) =>
        /\ vOut.success = FALSE
        /\ vOut.level = 4
        /\ vOut.confidence = InFloatScore
        /\ InScore < 70
        /\ ~GE(vOut.confidence, 7, 10)
        /\ Len(vOut.reasons) = Len(ExpectedSignalTags) + 2
        /\ vOut.reasons[Len(vOut.reasons)] = <<"Manual review required">>
        /\ \A k \in 1..Len(ExpectedSignalTags) :
              vOut.reasons[k + 1][1] = ExpectedSignalTags[k]

\* C9 witness: a level-4 result that carries two level-3 reasons and the sum 0.55
C9_Witness ==
    /\ Called /\ AllFetched
    /\ vOut.level = 4
    /\ EQ(vOut.confidence, 55, 100)
    /\ Len(vOut.reasons) = 4

\* the two display names are unrelated: their similarity is a number below 0.6
InNamesUnrelated ==
    InNameSimilarity[2] > 0 /\ InNameSimilarity[1] * 10 < 6 * InNameSimilarity[2]

\* all fetches succeed, unrelated names, no bio cross-reference in either
\* direction and no matching title
UnrelatedPair ==
    /\ Called /\ AllFetched
    /\ InNamesUnrelated
    /\ ~SourceBioMentionsTarget /\ ~TargetBioMentionsSource
    /\ InMatchingTitles = 0

\* C19 as stated: for every pair with unrelated names, no bio cross-reference
\* and 0 matching titles, with all fetches succeeding, verify returns level 4,
\* success = false and confidence 0.
C19_UnrelatedPairZeroConfidence ==
    UnrelatedPair =>
        /\ vOut.level = 4
        /\ vOut.success = FALSE
        /\ EQ(vOut.confidence, 0, 1)

\* C19 amended: for every such pair verify returns level 4 and success =
\* false; the confidence is 0 when the audience ratio is not reasonable (or a
\* count is missing) and 0.15 when the audience ratio lies in [0.5, 2.0].
C19_UnrelatedPairLevel4 ==
    UnrelatedPair =>
        /\ vOut.level = 4
        /\ vOut.success = FALSE
        /\ IF InRatioReasonable THEN EQ(vOut.confidence, 15, 100)
           ELSE EQ(vOut.confidence, 0, 1)

\* an unrelated pair with a reasonable audience ratio, rated 0.15 at level 4
C19_Witness ==
    /\ UnrelatedPair
    /\ InRatioReasonable
    /\ vOut.level = 4
    /\ EQ(vOut.confidence, 15, 100)

\* C20: in every result verify returns, the mapping is present exactly when
\* success is true, success is true exactly when the level is 1, 2 or 3, and
\* a present mapping carries the result's level and verifiedBy = auto.
C20_MappingIffSuccess ==
    (Called /\ ~vOut.threw) =>
        /\ (vOut.mapping # Undefined) <=> vOut.success
        /\ vOut.success <=> (vOut.level \in {1, 2, 3})
        /\ vOut.level \in {1, 2, 3, 4}
        /\ vOut.mapping # Undefined =>
              /\ vOut.mapping.verificationLevel = vOut.level
              /\ vOut.mapping.verifiedBy = "auto"

\* a level-3 success whose mapping carries level 3
C20_Witness ==
    /\ Called /\ ~vOut.threw
    /\ vOut.success /\ vOut.level = 3
    /\ vOut.mapping # Undefined
    /\ vOut.mapping.verificationLevel = 3

\* the collaborator calls of this verify, as a set
CallsMade == {vOut.calls[k] : k \in 1..Len(vOut.calls)}

\* level 1 succeeds on the two profiles
Level1Holds == InYtChannel.verified /\ GE(InNameSimilarity, 8, 10)

\* C27: the cascade is ordered and lazy: a verify that succeeds at level 1 or 2
\* makes exactly the two profile fetches; the bio check is evaluated (its
\* outcome is in the metadata) only when level 1 did not succeed; and the two
\* content samples are fetched only when neither level 1 nor level 2 succeeded.
C27_OrderedLazyCascade ==
    (Called /\ ~vOut.threw /\ ProfilesFetched) =>
        /\ (vOut.success /\ vOut.level \in {1, 2}) =>
              vOut.calls = <<"getUserInfo", "getChannel">>
        /\ Level1Holds => vOut.metadata.bioMatch = Undefined
        /\ (vOut.success /\ vOut.level = 1) => Level1Holds
        /\ (vOut.success /\ vOut.level = 2) => ~Level1Holds
        /\ CallsMade \cap {"getUserVideos", "getChannelVideos"} # {} =>
              /\ ~Level1Holds
              /\ ~(SourceBioMentionsTarget \/ TargetBioMentionsSource)
              /\ vOut.level \notin {1, 2}

\* a level-2 success on a verified channel whose name did not match: the bio
\* check ran after level 1 failed, and only the two profiles were fetched
C27_Witness ==
    /\ Called /\ ~vOut.threw /\ ProfilesFetched
    /\ InYtChannel.verified
    /\ vOut.success /\ vOut.level = 2
    /\ vOut.metadata.bioMatch = "true"
    /\ Len(vOut.calls) = 2

\* the two confidences a level-3 result can carry by the decimal sums
Level3Decimal(c) == EQ(c, 70, 100) \/ EQ(c, 85, 100)

\* C30 as stated: every level-3 result has name similarity >= 0.8 and at
\* least one matching title, and its confidence is one of 0.7 or 0.85.
C30_Level3NeedsNameExact ==
    (Called /\ ~vOut.threw /\ vOut.level = 3) =>
        /\ GE(InNameSimilarity, 8, 10)
        /\ InMatchingTitles >= 1
        /\ Level3Decimal(vOut.confidence)

\* C30 amended: every level-3 result has name similarity >= 0.8 and at least
\* one matching title; its confidence is 0.7 (0.4 + 0.3), 0.85 (0.4 + 0.3 +
\* 0.15) or the double next above 0.7 (0.4 + 0.15 + 0.15 summed in doubles);
\* and a pair with name similarity below 0.8 is never verified at level 3.
C30_Level3NeedsName ==
    /\ (Called /\ ~vOut.threw /\ vOut.level = 3) =>
          /\ AllFetched
          /\ GE(InNameSimilarity, 8, 10)
          /\ InMatchingTitles >= 1
          /\ \/ Level3Decimal(vOut.confidence)
             \/ vOut.confidence = <<70, 100, 1>>
    /\ (Called /\ ~vOut.threw /\ ProfilesFetched /\ ~GE(InNameSimilarity, 8, 10)) =>
          vOut.level # 3

\* a level-3 success by one matching title and a reasonable ratio, whose
\* confidence is the double next above 0.7
C30_Witness ==
    /\ Called /\ AllFetched
    /\ vOut.success /\ vOut.level = 3
    /\ InMatchingTitles = 1
    /\ ulps(vOut.confidence) = 1

(***************************************************************************)
(* ShardManager.  The files under baseDir are a function from the path     *)
(* relative to baseDir to the content; a content is the empty text or the  *)
(* text of a JSON document, held as the value that parsing it gives.       *)
(***************************************************************************)
DEFAULT_SHARD_CONFIG == [level1Length |-> 2, level2Length |-> 2, hashLength |-> 8]

\* crypto.createHash('sha256').update(userId).digest('hex') of the identifiers used here
sha256Hex ==
    uid69235 :>   \* sha256('69235') = c11eb5e648603242...
       <<"c", "1", "1", "e", "b", "5", "e", "6", "4", "8", "6", "0", "3", "2", "4",
       "2", "1", "f", "4", "8", "e", "5", "5", "f", "e", "2", "8", "4", "6", "b", "d",
       "1", "4", "7", "c", "e", "2", "5", "4", "3", "3", "5", "5", "9", "0", "e", "b",
       "0", "9", "5", "b", "f", "7", "2", "3", "0", "e", "9", "9", "c", "5", "5", "1",
       "9">>
    @@
    uid95303 :>   \* sha256('95303') = c11eb5e6b0d967bb...
       <<"c", "1", "1", "e", "b", "5", "e", "6", "b", "0", "d", "9", "6", "7", "b",
       "b", "b", "2", "0", "8", "d", "9", "f", "9", "1", "9", "c", "e", "3", "c", "1",
       "b", "f", "d", "c", "8", "4", "a", "c", "7", "d", "9", "d", "8", "d", "c", "1",
       "f", "7", "b", "e", "b", "8", "7", "2", "1", "c", "c", "d", "1", "7", "9", "1",
       "d">>
    @@
    uid111 :>   \* sha256('111') = f6e0a1e2ac41945a...
       <<"f", "6", "e", "0", "a", "1", "e", "2", "a", "c", "4", "1", "9", "4", "5",
       "a", "9", "a", "a", "7", "f", "f", "8", "a", "8", "a", "a", "a", "0", "c", "e",
       "b", "c", "1", "2", "a", "3", "b", "c", "c", "9", "8", "1", "a", "9", "2", "9",
       "a", "d", "5", "c", "f", "8", "1", "0", "a", "0", "9", "0", "e", "1", "1", "a",
       "e">>
    @@
    chUC1 :>   \* sha256('UC1') = 45c30a6384d495c4...
       <<"4", "5", "c", "3", "0", "a", "6", "3", "8", "4", "d", "4", "9", "5", "c",
       "4", "b", "7", "8", "c", "7", "6", "1", "4", "a", "1", "6", "e", "9", "f", "6",
       "1", "2", "a", "2", "b", "b", "8", "c", "5", "c", "e", "a", "2", "b", "c", "0",
       "3", "b", "7", "d", "9", "2", "d", "b", "f", "5", "6", "2", "8", "f", "a", "e",
       "4">>
    @@
    chUC2 :>   \* sha256('UC2') = 473e1e8733e90be4...
       <<"4", "7", "3", "e", "1", "e", "8", "7", "3", "3", "e", "9", "0", "b", "e",
       "4", "1", "e", "5", "7", "3", "1", "4", "0", "d", "8", "a", "7", "4", "e", "9",
       "e", "1", "2", "7", "1", "0", "3", "e", "3", "c", "9", "c", "7", "3", "e", "0",
       "c", "d", "b", "4", "1", "b", "5", "7", "5", "b", "a", "f", "4", "6", "c", "b",
       "6">>

clamp(n, len) == IF n < 0 THEN 0 ELSE IF n > len THEN len ELSE n

\* String.prototype.substring: both ends clamped to the string, swapped if reversed
substring(s, start, end) ==
    LET a == clamp(start, Len(s))
        b == clamp(end, Len(s))
    IN SubSeq(s, (IF a < b THEN a ELSE b) + 1, IF a < b THEN b ELSE a)

hash(config, userId) == substring(sha256Hex[userId], 0, config.hashLength)

level1Of(config, userId) == substring(hash(config, userId), 0, config.level1Length)
level2Of(config, userId) ==
    substring(hash(config, userId), config.level1Length,
              config.level1Length + config.level2Length)

dotJson     == <<".", "j", "s", "o", "n">>
dotGitkeep  == <<".", "g", "i", "t", "k", "e", "e", "p">>
indexJson   == <<"i", "n", "d", "e", "x">> \o dotJson

\* `${level1}/${level2}/${hash}.json`
getShardPath(config, userId) ==
    level1Of(config, userId) \o <<"/">> \o level2Of(config, userId) \o <<"/">>
        \o hash(config, userId) \o dotJson

\* getShardDir, without the baseDir prefix
getShardDir(config, userId) ==
    level1Of(config, userId) \o <<"/">> \o level2Of(config, userId)

gitkeepPath(config, userId) == getShardDir(config, userId) \o <<"/">> \o dotGitkeep

emptyText == [empty |-> TRUE, json |-> Undefined]

\* what JSON.stringify writes for a number: null for NaN and the infinities
jsonNumber(x) == IF x # Undefined /\ x[2] = 0 THEN Null ELSE x

\* the document JSON.stringify(mapping, null, 2) denotes
jsonOfMapping(mapping) ==
    [mapping EXCEPT !.metadata =
        [bilibiliFollowers  |-> jsonNumber(mapping.metadata.bilibiliFollowers),
         youtubeSubscribers |-> jsonNumber(mapping.metadata.youtubeSubscribers),
         usernameSimilarity |-> jsonNumber(mapping.metadata.usernameSimilarity),
         youtubeVerified    |-> mapping.metadata.youtubeVerified,
         bioMatch           |-> mapping.metadata.bioMatch,
         matchingVideos     |-> jsonNumber(mapping.metadata.matchingVideos)]]

stringifyMapping(mapping) == [empty |-> FALSE, json |-> jsonOfMapping(mapping)]

\* an index holds strings only
stringifyIndex(index) == [empty |-> FALSE, json |-> index]

\* Bun.write(path, content)
bunWrite(files, path, content) == (path :> content) @@ files

\* readMapping: null for a missing file and for one file.json() cannot parse
readMapping(files, config, userId) ==
    LET filePath == getShardPath(config, userId)
    IN IF filePath \notin DOMAIN files THEN Null
       ELSE IF files[filePath].empty THEN Null
       ELSE files[filePath].json

\* the two writes of writeMapping
writeGitkeep(files, config, userId) ==
    bunWrite(files, gitkeepPath(config, userId), emptyText)
writeShardFile(files, config, userId, mapping) ==
    bunWrite(files, getShardPath(config, userId), stringifyMapping(mapping))

\* writeMapping run to its end
writeMapping(files, config, userId, mapping) ==
    writeShardFile(writeGitkeep(files, config, userId), config, userId, mapping)

deleteMapping_unlink(files, config, userId) ==
    [path \in DOMAIN files \ {getShardPath(config, userId)} |-> files[path]]

\* deleteMapping empties the file
deleteMapping(files, config, userId) ==
    bunWrite(files, getShardPath(config, userId), emptyText)

hasMapping(files, config, userId) == getShardPath(config, userId) \in DOMAIN files

\* filterNewUsers: the users for which hasMapping(user.uid) is false, in order
filterNewUsers(files, config, userList) ==
    SelectSeq(userList, LAMBDA user : ~hasMapping(files, config, user.uid))

\* Bun.Glob('**/*.json'): the paths a scan yields
endsWithJson(path) ==
    Len(path) >= Len(dotJson)
        /\ SubSeq(path, Len(path) - Len(dotJson) + 1, Len(path)) = dotJson

jsonPaths(files) == {path \in DOMAIN files : endsWithJson(path)}

\* the orders in which glob.scan may yield them
ScanOrders(files) ==
    LET S == jsonPaths(files)
        n == Cardinality(S)
    IN {scan \in [1..n -> S] : \A i, j \in 1..n : i # j => scan[i] # scan[j]}

\* the loop body of buildIndex from the k-th scanned path on
RECURSIVE indexFrom(_, _, _, _)
indexFrom(files, scan, k, index) ==
    IF k > Len(scan) THEN index
    ELSE LET filePath == scan[k]
         IN IF filePath = indexJson \/ files[filePath].empty
            THEN indexFrom(files, scan, k + 1, index)
            ELSE LET mapping == files[filePath].json
                     i1 == (mapping.bilibiliUid :> filePath) @@ index
                     i2 == (mapping.youtubeChannelId :> filePath) @@ i1
                 IN indexFrom(files, scan, k + 1, i2)

buildIndex(files, scan) == indexFrom(files, scan, 1, <<>>)

writeIndex(files, index) == bunWrite(files, indexJson, stringifyIndex(index))

\* readIndex: null for a missing or unparsable index file
readIndex(files) ==
    IF indexJson \notin DOMAIN files THEN Null
    ELSE IF files[indexJson].empty THEN Null
    ELSE files[indexJson].json

(***************************************************************************)
(* One ShardManager with the default configuration, used by callers that   *)
(* do not wait for one call to settle before making the next.  Every call  *)
(* advances one await at a time: a Bun.write takes effect, and exists(),   *)
(* json() and the next path of glob.scan see the files, when they resolve. *)
(***************************************************************************)
MaxInflight == 2

\* the collaborators' responses of a verify call that needs the two profiles only
profilesApi(biliUser, ytChannel) ==
    [getUserInfo |-> Ok(biliUser), getChannel |-> Ok(ytChannel),
     getUserVideos |-> Ok(<<>>), getChannelVideos |-> Ok(<<>>)]

\* the mapping of a successful verify(uid, channelId) at time `date`
verifiedMapping(uid, channelId, name, title, sign, date) ==
    verify(uid, channelId,
           profilesApi(BilibiliUser(uid, name, sign, Num(1000)),
                       YouTubeChannel(channelId, title, descPlain, Num(500), TRUE)),
           date).mapping

\* the records written: two per identifier where the last write matters
SampleMappings ==
    { verifiedMapping(uid69235, chUC1, nameAbCde, titleAbcdeChannel, signPlain, 1),
      verifiedMapping(uid69235, chUC2, namePindao, titleOfficial, signYoutubeCom, 2),
      verifiedMapping(uid95303, chUC2, nameAbCde, titleAbcdeChannel, signPlain, 1),
      verifiedMapping(uid111, chUC1, nameAbCde, titleAbcdeChannel, signPlain, 1) }

ShardIds == {uid69235, uid95303, uid111}

\* what a completed call returned or threw
Returned(op, userId, value) == [op |-> op, userId |-> userId, threw |-> FALSE, value |-> value]
Threw(op, userId) == [op |-> op, userId |-> userId, threw |-> TRUE, value |-> Undefined]

\* a call in flight is told from an equal one by the slot it holds
FreeSlot == CHOOSE k \in 1..MaxInflight : \A w \in inflight : w.call # k

\* a writeMapping call is in flight
Writing == \E w \in inflight : w.op = "writeMapping"

\* history: the read-side calls in flight now have a writeMapping call beside them
overlap(calls) ==
    {IF w.op \in {"readMapping", "buildIndex"} THEN [w EXCEPT !.overlapped = TRUE] ELSE w :
        w \in calls}

\* what a read-side call returned, and whether a writeMapping call ran beside it
ReturnedFrom(w, userId, value) ==
    [op |-> w.op, userId |-> userId, threw |-> FALSE, value |-> value,
     overlapped |-> w.overlapped]

\* writeMapping(mapping.bilibiliUid, mapping) is called: up to its first await
WriteMappingCall ==
    /\ Cardinality(inflight) < MaxInflight
    /\ \E mapping \in SampleMappings :
          inflight' = overlap(inflight) \cup
              {[call |-> FreeSlot, op |-> "writeMapping", userId |-> mapping.bilibiliUid,
                mapping |-> mapping, stage |-> "gitkeep"]}
    /\ UNCHANGED <<fs, lastWrite, opOut, built>>
    /\ UNCHANGED <<batch, verifierVars, workflowVars, limiterVars, submitVars, clientVars>>

\* the write of .gitkeep lands; the call goes on to its second Bun.write
WriteGitkeepDone ==
    /\ \E w \in inflight :
          /\ w.op = "writeMapping" /\ w.stage = "gitkeep"
          /\ fs' = writeGitkeep(fs, DEFAULT_SHARD_CONFIG, w.userId)
          /\ inflight' = (inflight \ {w}) \cup {[w EXCEPT !.stage = "file"]}
    /\ UNCHANGED <<lastWrite, opOut, built>>
    /\ UNCHANGED <<batch, verifierVars, workflowVars, limiterVars, submitVars, clientVars>>

\* the write of the mapping file lands; writeMapping resolves
WriteFileDone ==
    /\ \E w \in inflight :
          /\ w.op = "writeMapping" /\ w.stage = "file"
          /\ fs' = writeShardFile(fs, DEFAULT_SHARD_CONFIG, w.userId, w.mapping)
          /\ inflight' = inflight \ {w}
          /\ lastWrite' = (w.userId :> [op |-> "writeMapping", mapping |-> w.mapping])
                              @@ lastWrite
          /\ opOut' = Returned("writeMapping", w.userId, Undefined)
    /\ UNCHANGED built
    /\ UNCHANGED <<batch, verifierVars, workflowVars, limiterVars, submitVars, clientVars>>

\* the pending Bun.write of a call fails; writeMapping logs and rethrows
WriteRejected ==
    /\ \E w \in inflight :
          /\ w.op = "writeMapping"
          /\ inflight' = inflight \ {w}
          /\ opOut' = Threw("writeMapping", w.userId)
    /\ UNCHANGED <<fs, lastWrite, built>>
    /\ UNCHANGED <<batch, verifierVars, workflowVars, limiterVars, submitVars, clientVars>>

\* readMapping(userId) is called: up to await file.exists()
ReadMappingCall ==
    /\ Cardinality(inflight) < MaxInflight
    /\ \E userId \in ShardIds :
          inflight' = inflight \cup
              {[call |-> FreeSlot, op |-> "readMapping", userId |-> userId,
                stage |-> "exists", overlapped |-> Writing]}
    /\ UNCHANGED <<fs, lastWrite, opOut, built>>
    /\ UNCHANGED <<batch, verifierVars, workflowVars, limiterVars, submitVars, clientVars>>

\* file.exists() resolves: null for a missing file, else file.json() is awaited
ReadExistsDone ==
    /\ \E r \in inflight :
          /\ r.op = "readMapping" /\ r.stage = "exists"
          /\ IF hasMapping(fs, DEFAULT_SHARD_CONFIG, r.userId)
             THEN /\ inflight' = (inflight \ {r}) \cup {[r EXCEPT !.stage = "json"]}
                  /\ UNCHANGED opOut
             ELSE /\ inflight' = inflight \ {r}
                  /\ opOut' = ReturnedFrom(r, r.userId, Null)
    /\ UNCHANGED <<fs, lastWrite, built>>
    /\ UNCHANGED <<batch, verifierVars, workflowVars, limiterVars, submitVars, clientVars>>

\* file.json() resolves with the document the file holds now, or rejects on a
\* file it cannot parse, which readMapping catches
ReadJsonDone ==
    /\ \E r \in inflight :
          /\ r.op = "readMapping" /\ r.stage = "json"
          /\ inflight' = inflight \ {r}
          /\ opOut' = ReturnedFrom(r, r.userId,
                                   readMapping(fs, DEFAULT_SHARD_CONFIG, r.userId))
    /\ UNCHANGED <<fs, lastWrite, built>>
    /\ UNCHANGED <<batch, verifierVars, workflowVars, limiterVars, submitVars, clientVars>>

\* the caller that rebuilds the index has a call in flight
Indexing == \E w \in inflight : w.op \in {"buildIndex", "writeIndex"}

\* buildIndex() is called by the caller that rebuilds the index, which awaits
\* each of its calls: up to the first await of the scan.  `present` are the
\* paths in baseDir when the scan starts
BuildIndexCall ==
    /\ Cardinality(inflight) < MaxInflight
    /\ ~Indexing
    /\ inflight' = inflight \cup
          {[call |-> FreeSlot, op |-> "buildIndex", stage |-> "scan",
            present |-> jsonPaths(fs), scanned |-> {},
            filePath |-> Undefined, index |-> <<>>, overlapped |-> Writing]}
    /\ built' = {}
    /\ UNCHANGED <<fs, lastWrite, opOut>>
    /\ UNCHANGED <<batch, verifierVars, workflowVars, limiterVars, submitVars, clientVars>>

\* glob.scan yields a path it has not yielded, in any order: index.json is
\* skipped, for another path file.json() is awaited
ScanYields ==
    /\ \E b \in inflight :
          /\ b.op = "buildIndex" /\ b.stage = "scan"
          /\ \E filePath \in jsonPaths(fs) \ b.scanned :
                inflight' = (inflight \ {b}) \cup
                    {IF filePath = indexJson
                     THEN [b EXCEPT !.scanned = @ \cup {filePath}]
                     ELSE [b EXCEPT !.scanned = @ \cup {filePath}, !.stage = "json",
                                    !.filePath = filePath]}
    /\ UNCHANGED <<fs, lastWrite, opOut, built>>
    /\ UNCHANGED <<batch, verifierVars, workflowVars, limiterVars, submitVars, clientVars>>

\* file.json() of the scanned path resolves with the document the file holds
\* now and both its identifiers are indexed, or rejects on a file it cannot
\* parse, which the loop body catches
IndexJsonDone ==
    /\ \E b \in inflight :
          /\ b.op = "buildIndex" /\ b.stage = "json"
          /\ inflight' = (inflight \ {b}) \cup
                {[b EXCEPT !.stage = "scan", !.filePath = Undefined,
                           !.index = indexFrom(fs, <<b.filePath>>, 1, b.index)]}
    /\ UNCHANGED <<fs, lastWrite, opOut, built>>
    /\ UNCHANGED <<batch, verifierVars, workflowVars, limiterVars, submitVars, clientVars>>

\* the scan ends: it has yielded every path that was there when it started,
\* and may have missed a path created since; buildIndex returns the index to
\* its caller
ScanDone ==
    /\ \E b \in inflight :
          /\ b.op = "buildIndex" /\ b.stage = "scan"
          /\ b.present \subseteq b.scanned
          /\ inflight' = inflight \ {b}
          /\ opOut' = ReturnedFrom(b, Undefined, b.index)
          /\ built' = {b.index}
    /\ UNCHANGED <<fs, lastWrite>>
    /\ UNCHANGED <<batch, verifierVars, workflowVars, limiterVars, submitVars, clientVars>>

\* writeIndex(index) is called with the index buildIndex returned: up to its await
WriteIndexCall ==
    /\ Cardinality(inflight) < MaxInflight
    /\ ~Indexing
    /\ \E index \in built :
          inflight' = inflight \cup
              {[call |-> FreeSlot, op |-> "writeIndex", index |-> index, stage |-> "write"]}
    /\ built' = {}
    /\ UNCHANGED <<fs, lastWrite, opOut>>
    /\ UNCHANGED <<batch, verifierVars, workflowVars, limiterVars, submitVars, clientVars>>

\* the write of index.json lands; writeIndex resolves
WriteIndexDone ==
    /\ \E w \in inflight :
          /\ w.op = "writeIndex"
          /\ fs' = writeIndex(fs, w.index)
          /\ inflight' = inflight \ {w}
          /\ opOut' = Returned("writeIndex", Undefined, Undefined)
    /\ UNCHANGED <<lastWrite, built>>
    /\ UNCHANGED <<batch, verifierVars, workflowVars, limiterVars, submitVars, clientVars>>

\* the write of index.json fails; writeIndex rejects
WriteIndexRejected ==
    /\ \E w \in inflight :
          /\ w.op = "writeIndex"
          /\ inflight' = inflight \ {w}
          /\ opOut' = Threw("writeIndex", Undefined)
    /\ UNCHANGED <<fs, lastWrite, built>>
    /\ UNCHANGED <<batch, verifierVars, workflowVars, limiterVars, submitVars, clientVars>>

\* callers that write and read mappings
NextShard ==
    \/ WriteMappingCall \/ WriteGitkeepDone \/ WriteFileDone \/ WriteRejected
    \/ ReadMappingCall \/ ReadExistsDone \/ ReadJsonDone

SpecShard ==
    Init /\ [][NextShard]_vars

\* callers that write mappings and rebuild the index
NextIndex ==
    \/ WriteMappingCall \/ WriteGitkeepDone \/ WriteFileDone \/ WriteRejected
    \/ BuildIndexCall \/ ScanYields \/ IndexJsonDone \/ ScanDone
    \/ WriteIndexCall \/ WriteIndexDone \/ WriteIndexRejected

SpecIndex ==
    Init /\ [][NextIndex]_vars

(***************************************************************************)
(* Properties of one ShardManager                                          *)
(***************************************************************************)
\* the last call to settle has returned a value, no call is in flight, and no
\* writeMapping call was in flight while it ran
Settled(op) ==
    /\ opOut # Undefined /\ opOut.op = op /\ ~opOut.threw
    /\ inflight = {}
    /\ ~opOut.overlapped

\* the mappings whose writeMapping was the last to complete for their identifier
WrittenMappings == {lastWrite[id].mapping : id \in DOMAIN lastWrite}

\* C3: readMapping(id) returns a record equal to the record of the most recent
\* completed writeMapping(id, .), and null for an id that was never written.
C3_RoundTripLastWriteWins ==
    Settled("readMapping") =>
        IF opOut.userId \in DOMAIN lastWrite
        THEN opOut.value = lastWrite[opOut.userId].mapping
        ELSE IsNull(opOut.value)

\* C4: once writeMapping(a, m1) and writeMapping(b, m2) with a # b have both
\* completed, in whatever interleaving, readMapping(a) returns what was written
\* as m1 (and readMapping(b) what was written as m2).
C4_DifferentIdsDoNotInterfere ==
    Settled("readMapping") =>
        \A b \in DOMAIN lastWrite :
            (opOut.userId \in DOMAIN lastWrite /\ b # opOut.userId)
                => opOut.value = jsonOfMapping(lastWrite[opOut.userId].mapping)

\* C10: buildIndex() on a store into which N mappings with 2N distinct
\* identifiers were written returns at least 2N keys, the source and the target
\* identifier of every record pointing to that record's path; every key maps to
\* an existing record file; and the index file is never indexed.
C10_IndexComplete ==
    Settled("buildIndex") =>
        LET index == opOut.value
            N     == Cardinality(WrittenMappings)
            ids   == {m.bilibiliUid : m \in WrittenMappings}
                         \cup {m.youtubeChannelId : m \in WrittenMappings}
        IN /\ Cardinality(ids) = 2 * N =>
                /\ Cardinality(DOMAIN index) >= 2 * N
                /\ \A m \in WrittenMappings :
                      /\ m.bilibiliUid \in DOMAIN index
                      /\ m.youtubeChannelId \in DOMAIN index
                      /\ index[m.bilibiliUid]
                            = getShardPath(DEFAULT_SHARD_CONFIG, m.bilibiliUid)
                      /\ index[m.youtubeChannelId]
                            = getShardPath(DEFAULT_SHARD_CONFIG, m.bilibiliUid)
           /\ \A key \in DOMAIN index :
                 /\ index[key] \in DOMAIN fs
                 /\ ~fs[index[key]].empty
                 /\ index[key] # indexJson

(***************************************************************************)
(* batchWrite: mappings.map(...) calls writeMapping for every entry, each  *)
(* running up to its first await, and the call then awaits Promise.all of  *)
(* the promises.  The writes advance one Bun.write at a time, in any       *)
(* interleaving, and any pending Bun.write may fail.                       *)
(***************************************************************************)
MaxBatch == 3

\* the lists handed to batchWrite: entries { userId, mapping }
BatchLists ==
    UNION { { [k \in 1..n |-> [userId |-> l[k].bilibiliUid, mapping |-> l[k]]] :
                l \in [1..n -> SampleMappings] } :
            n \in 0..MaxBatch }

\* the error a failing Bun.write of the k-th entry throws
BatchError(entry) == <<"EIO", entry>>

\* Promise.all(writes): fulfilled once every promise is, rejected at the first
\* rejection, and settled once only
promiseAll(promise, writes) ==
    IF promise # "pending" THEN promise
    ELSE IF \E k \in DOMAIN writes : writes[k] = "rejected" THEN "rejected"
    ELSE IF \A k \in DOMAIN writes : writes[k] = "resolved" THEN "resolved"
    ELSE "pending"

\* batchWrite(mappings) is called: every writeMapping has started
BatchWriteCall ==
    /\ batch = Undefined
    /\ \E mappings \in BatchLists :
          LET writes == [k \in 1..Len(mappings) |-> "pending"]
          IN /\ inflight' = {[userId |-> mappings[k].userId,
                              mapping |-> mappings[k].mapping,
                              stage |-> "gitkeep", entry |-> k] :
                                 k \in 1..Len(mappings)}
             /\ batch' = [mappings |-> mappings, writes |-> writes,
                          promise |-> promiseAll("pending", writes),
                          error |-> Undefined, failed |-> <<>>]
    /\ UNCHANGED <<fs, lastWrite, built, opOut>>
    /\ UNCHANGED <<verifierVars, workflowVars, limiterVars, submitVars, clientVars>>

\* the write of .gitkeep of one entry lands
BatchGitkeepDone ==
    /\ batch # Undefined
    /\ \E w \in inflight :
          /\ w.stage = "gitkeep"
          /\ fs' = writeGitkeep(fs, DEFAULT_SHARD_CONFIG, w.userId)
          /\ inflight' = (inflight \ {w}) \cup {[w EXCEPT !.stage = "file"]}
    /\ UNCHANGED <<lastWrite, built, opOut, batch>>
    /\ UNCHANGED <<verifierVars, workflowVars, limiterVars, submitVars, clientVars>>

\* the write of the mapping file of one entry lands: its writeMapping resolves
BatchFileDone ==
    /\ batch # Undefined
    /\ \E w \in inflight :
          /\ w.stage = "file"
          /\ fs' = writeShardFile(fs, DEFAULT_SHARD_CONFIG, w.userId, w.mapping)
          /\ inflight' = inflight \ {w}
          /\ lastWrite' = (w.userId :> [op |-> "writeMapping", mapping |-> w.mapping])
                              @@ lastWrite
          /\ LET writes == [batch.writes EXCEPT ![w.entry] = "resolved"]
             IN batch' = [batch EXCEPT !.writes = writes,
                                       !.promise = promiseAll(batch.promise, writes)]
    /\ UNCHANGED <<opOut, built>>
    /\ UNCHANGED <<verifierVars, workflowVars, limiterVars, submitVars, clientVars>>

\* the pending Bun.write of one entry fails: its writeMapping rethrows
BatchWriteRejected ==
    /\ batch # Undefined
    /\ \E w \in inflight :
          /\ inflight' = inflight \ {w}
          /\ LET writes == [batch.writes EXCEPT ![w.entry] = "rejected"]
             IN batch' = [batch EXCEPT
                             !.writes = writes,
                             !.promise = promiseAll(batch.promise, writes),
                             !.error = IF batch.promise = "pending"
                                       THEN BatchError(w.entry) ELSE batch.error,
                             !.failed = Append(batch.failed, w.entry)]
    /\ UNCHANGED <<fs, lastWrite, built, opOut>>
    /\ UNCHANGED <<verifierVars, workflowVars, limiterVars, submitVars, clientVars>>

NextBatch ==
    \/ BatchWriteCall \/ BatchGitkeepDone \/ BatchFileDone \/ BatchWriteRejected

SpecBatch ==
    Init /\ [][NextBatch]_vars

(***************************************************************************)
(* Properties of batchWrite                                                *)
(***************************************************************************)
\* the entries of the list whose identifier occurs once in it
OccursOnce(k) ==
    \A j \in DOMAIN batch.mappings :
        batch.mappings[j].userId = batch.mappings[k].userId => j = k

\* C11: at the moment the batchWrite call settles, resolved or rejected, no
\* write it issued is still in flight; and when it resolves, every entry
\* (id, record) whose id occurs once is readable with readMapping(id) = record.
C11_BatchWaitsForAll ==
    (batch # Undefined /\ batch.promise # "pending") =>
        /\ inflight = {}
        /\ batch.promise = "resolved" =>
              \A k \in DOMAIN batch.mappings :
                  OccursOnce(k) =>
                      readMapping(fs, DEFAULT_SHARD_CONFIG, batch.mappings[k].userId)
                          = batch.mappings[k].mapping

\* C12: when the write of an entry fails, batchWrite rejects with the error of
\* the first write that failed, and the record of every other entry whose
\* write has completed (its id occurring once) is what readMapping returns.
C12_NoRollbackFirstError ==
    (batch # Undefined /\ batch.failed # <<>>) =>
        /\ batch.promise = "rejected"
        /\ batch.error = BatchError(batch.failed[1])
        /\ \A k \in DOMAIN batch.mappings :
              (batch.writes[k] = "resolved" /\ OccursOnce(k)) =>
                  readMapping(fs, DEFAULT_SHARD_CONFIG, batch.mappings[k].userId)
                      = jsonOfMapping(batch.mappings[k].mapping)

(***************************************************************************)
(* One ShardManager (the store keyed by Bilibili uid) used by a caller     *)
(* that awaits every call: writeMapping, deleteMapping, readMapping,       *)
(* hasMapping, and the scanner's filterNewUsers over a list of candidates. *)
(***************************************************************************)
MaxCandidates == 2

\* a user as getHotRankings and getMustWatchList build it
Candidate(uid) == BilibiliUser(uid, nameAbCde, <<>>, Num(0))

\* the lists handed to filterNewUsers
CandidateLists ==
    UNION { { [k \in 1..n |-> Candidate(l[k])] : l \in [1..n -> ShardIds] } :
            n \in 0..MaxCandidates }

\* await writeMapping(mapping.bilibiliUid, mapping)
AwaitedWriteMapping ==
    /\ \E mapping \in SampleMappings :
          /\ fs' = writeMapping(fs, DEFAULT_SHARD_CONFIG, mapping.bilibiliUid, mapping)
          /\ lastWrite' = (mapping.bilibiliUid :>
                              [op |-> "writeMapping", mapping |-> mapping]) @@ lastWrite
          /\ opOut' = Returned("writeMapping", mapping.bilibiliUid, Undefined)
    /\ UNCHANGED <<inflight, built>>
    /\ UNCHANGED <<batch, verifierVars, workflowVars, limiterVars, submitVars, clientVars>>

\* await readMapping(userId)
AwaitedReadMapping ==
    /\ \E userId \in ShardIds :
          opOut' = Returned("readMapping", userId,
                            readMapping(fs, DEFAULT_SHARD_CONFIG, userId))
    /\ UNCHANGED <<fs, inflight, lastWrite, built>>
    /\ UNCHANGED <<batch, verifierVars, workflowVars, limiterVars, submitVars, clientVars>>

\* await deleteMapping(userId)
DeleteMappingCall ==
    /\ \E userId \in ShardIds :
          /\ fs' = deleteMapping(fs, DEFAULT_SHARD_CONFIG, userId)
          /\ lastWrite' = (userId :> [op |-> "deleteMapping", mapping |-> Undefined])
                              @@ lastWrite
          /\ opOut' = Returned("deleteMapping", userId, Undefined)
    /\ UNCHANGED <<inflight, built>>
    /\ UNCHANGED <<batch, verifierVars, workflowVars, limiterVars, submitVars, clientVars>>

\* await hasMapping(userId)
HasMappingCall ==
    /\ \E userId \in ShardIds :
          opOut' = Returned("hasMapping", userId,
                            hasMapping(fs, DEFAULT_SHARD_CONFIG, userId))
    /\ UNCHANGED <<fs, inflight, lastWrite, built>>
    /\ UNCHANGED <<batch, verifierVars, workflowVars, limiterVars, submitVars, clientVars>>

\* await filterNewUsers(users)
FilterNewUsersCall ==
    /\ \E userList \in CandidateLists :
          opOut' = [op |-> "filterNewUsers", users |-> userList, threw |-> FALSE,
                    value |-> filterNewUsers(fs, DEFAULT_SHARD_CONFIG, userList)]
    /\ UNCHANGED <<fs, inflight, lastWrite, built>>
    /\ UNCHANGED <<batch, verifierVars, workflowVars, limiterVars, submitVars, clientVars>>

NextStore ==
    \/ AwaitedWriteMapping \/ DeleteMappingCall \/ AwaitedReadMapping
    \/ HasMappingCall \/ FilterNewUsersCall

SpecStore ==
    Init /\ [][NextStore]_vars

(***************************************************************************)
(* Properties of deleteMapping, hasMapping and filterNewUsers              *)
(***************************************************************************)
\* the call that has just returned
JustReturned(op) == opOut # Undefined /\ opOut.op = op /\ ~opOut.threw

\* C16: after deleteMapping(id), of an identifier that was written or of one
\* that never was, the call has completed without error, readMapping(id)
\* returns null and the path still exists, so hasMapping(id) is true.
C16_SoftDelete ==
    JustReturned("deleteMapping") =>
        /\ IsNull(readMapping(fs, DEFAULT_SHARD_CONFIG, opOut.userId))
        /\ hasMapping(fs, DEFAULT_SHARD_CONFIG, opOut.userId)

\* a mapping has been written (its .gitkeep is there) and then deleted
C16_Witness ==
    /\ JustReturned("deleteMapping")
    /\ gitkeepPath(DEFAULT_SHARD_CONFIG, opOut.userId) \in DOMAIN fs
    /\ fs[getShardPath(DEFAULT_SHARD_CONFIG, opOut.userId)].empty

\* C17: filterNewUsers(list) returns, in the original order, exactly the
\* candidates for whose identifier the store holds no mapping (readMapping
\* returns null), in every state of the store.
C17_FilterKeepsExactlyTheNew ==
    JustReturned("filterNewUsers") =>
        opOut.value
            = SelectSeq(opOut.users,
                        LAMBDA user :
                            IsNull(readMapping(fs, DEFAULT_SHARD_CONFIG, user.uid)))

(***************************************************************************)
(* getShardPath of a ShardManager constructed with any configuration: the  *)
(* constructor stores the configuration it is given as it is.              *)
(***************************************************************************)
MaxLevelLength == 3
MaxHashLength == 8

\* the configurations a ShardManager is constructed with
ShardConfigs ==
    [level1Length : 0..MaxLevelLength, level2Length : 0..MaxLevelLength,
     hashLength : 0..MaxHashLength]

\* new ShardManager(baseDir, config).getShardPath(userId)
GetShardPathCall ==
    /\ \E config \in ShardConfigs, userId \in DOMAIN sha256Hex :
          opOut' = [op |-> "getShardPath", userId |-> userId, threw |-> FALSE,
                    value |-> getShardPath(config, userId), config |-> config]
    /\ UNCHANGED <<fs, inflight, lastWrite, built, batch>>
    /\ UNCHANGED <<verifierVars, workflowVars, limiterVars, submitVars, clientVars>>

NextPath == GetShardPathCall

SpecPath ==
    Init /\ [][NextPath]_vars

\* the segments of a path between its slashes
RECURSIVE Segments(_)
Segments(path) ==
    IF \A k \in 1..Len(path) : path[k] # "/" THEN <<path>>
    ELSE LET k == CHOOSE k \in 1..Len(path) :
                      path[k] = "/" /\ \A j \in 1..(k - 1) : path[j] # "/"
         IN <<SubSeq(path, 1, k - 1)>> \o Segments(SubSeq(path, k + 1, Len(path)))

\* the first n characters of the SHA-256 digest of id
TruncatedHash(id, n) == SubSeq(sha256Hex[id], 1, n)

\* C25: for every id and every configuration, getShardPath(id) has exactly 3
\* segments: the first level1Length characters of the truncated hash, the next
\* level2Length characters of it, and the hash truncated to hashLength
\* characters followed by .json; and calling again gives the same path.
C25_ShardPathShape ==
    JustReturned("getShardPath") =>
        LET config == opOut.config
            h      == TruncatedHash(opOut.userId, config.hashLength)
            parts  == Segments(opOut.value)
        IN /\ Len(parts) = 3
           /\ Len(parts[1]) = config.level1Length
           /\ Len(parts[2]) = config.level2Length
           /\ parts[3] = h \o dotJson
           /\ \A k \in 1..Len(parts[1]) : parts[1][k] = h[k]
           /\ \A k \in 1..Len(parts[2]) : parts[2][k] = h[config.level1Length + k]
           /\ opOut.value = getShardPath(config, opOut.userId)

(***************************************************************************)
(* The verify workflow: main() of the verification entry point.  It parses *)
(* the work items, runs the loop body once per item (an iteration is one   *)
(* step: nothing else runs in the process while main awaits), then         *)
(* rebuilds and writes both indexes.                                       *)
(***************************************************************************)
MaxUsers == 2

WorkflowUids     == {uid69235, uid111}
WorkflowChannels == {chUC1, chUC2}
WorkflowTitles   == {titleAbcdeChannel, titleAbxyz}

\* USERS_JSON: up to MaxUsers items, each naming channel UC1 or leaving the channel
\* to the search, the k-th carrying ticket 100 + k
WorkLists ==
    UNION { { [k \in 1..n |-> [uid |-> l[k][1], ytChannelId |-> l[k][2],
                               issueNumber |-> 100 + k]] :
                l \in [1..n -> WorkflowUids \X {chUC1, Undefined}] } :
            n \in 0..MaxUsers }

\* what getUserInfo(uid) answers during one iteration
UserInfoResponses(uid) ==
    {Ok(BilibiliUser(uid, nameAbCde, signPlain, Num(1000))),
     Err(ApiError("getUserInfo"))}

\* what searchChannels(name, 5) answers: the channels found, by id
SearchResponses ==
    {Ok(<<>>), Ok(<<chUC1>>), Ok(<<chUC2, chUC1>>), Err(ApiError("searchChannels"))}

\* how far the two writes of an iteration get before one of them fails
WriteOutcomes == {"ok", "b2yGitkeep", "b2yFile", "y2bGitkeep", "y2bFile"}

\* the collaborators as one verify(uid, channelId) call of the iteration sees them
apiFor(userInfo, title, channelId) ==
    [getUserInfo |-> userInfo,
     getChannel |-> Ok(YouTubeChannel(channelId, title, descPlain, Num(500), TRUE)),
     getUserVideos |-> Ok(<<>>), getChannelVideos |-> Ok(<<>>)]

\* the inner for loop of the search: the first found channel that verifies
RECURSIVE firstVerified(_, _, _, _, _, _)
firstVerified(uid, channels, k, userInfo, titles, date) ==
    IF k > Len(channels) THEN Undefined
    ELSE LET result == verify(uid, channels[k],
                              apiFor(userInfo, titles[channels[k]], channels[k]), date)
         IN IF result.success /\ result.level <= 3 THEN channels[k]
            ELSE firstVerified(uid, channels, k + 1, userInfo, titles, date)

\* ytChannelId after the search branch, or the error thrown in it
resolveChannel(user, userInfo, found, titles, date) ==
    IF user.ytChannelId # Undefined THEN Ok(user.ytChannelId)
    ELSE IF ~userInfo.ok THEN Err(userInfo.error)
    ELSE IF ~found.ok THEN Err(found.error)
    ELSE Ok(firstVerified(user.uid, found.value, 1, userInfo, titles, date))

\* the entries pushed on results
noChannelResult(user) ==
    [success |-> FALSE, level |-> 4, confidence |-> Num(0),
     reasons |-> << <<"No YouTube channel found">> >>, metadata |-> emptyMetadata,
     mapping |-> Undefined, issueNumber |-> user.issueNumber]

errorResult(error, user) ==
    [success |-> FALSE, level |-> 4, confidence |-> Num(0),
     reasons |-> << <<"Error: ", error>> >>, metadata |-> emptyMetadata,
     mapping |-> Undefined, issueNumber |-> user.issueNumber]

verifiedResult(result, user) ==
    [success |-> result.success, level |-> result.level,
     confidence |-> result.confidence, reasons |-> result.reasons,
     metadata |-> result.metadata, mapping |-> result.mapping,
     issueNumber |-> user.issueNumber]

IOError(store) == <<"Error: EIO", store>>

\* the two awaited writeMapping calls, the first failing Bun.write ending them
persist(b2yFiles, y2bFiles, uid, ytChannelId, mapping, outcome) ==
    LET b1 == writeGitkeep(b2yFiles, DEFAULT_SHARD_CONFIG, uid)
        b2 == writeShardFile(b1, DEFAULT_SHARD_CONFIG, uid, mapping)
        y1 == writeGitkeep(y2bFiles, DEFAULT_SHARD_CONFIG, ytChannelId)
        y2 == writeShardFile(y1, DEFAULT_SHARD_CONFIG, ytChannelId, mapping)
    IN CASE outcome = "b2yGitkeep" ->
                [b2y |-> b2yFiles, y2b |-> y2bFiles, thrown |-> <<IOError("b2y")>>]
         [] outcome = "b2yFile" ->
                [b2y |-> b1, y2b |-> y2bFiles, thrown |-> <<IOError("b2y")>>]
         [] outcome = "y2bGitkeep" ->
                [b2y |-> b2, y2b |-> y2bFiles, thrown |-> <<IOError("y2b")>>]
         [] outcome = "y2bFile" ->
                [b2y |-> b2, y2b |-> y1, thrown |-> <<IOError("y2b")>>]
         [] OTHER ->
                [b2y |-> b2, y2b |-> y2, thrown |-> <<>>]

\* does this verify result get persisted
savesMapping(result) == result.success /\ result.mapping # Undefined

\* the try block from the final verify on, and the catch block behind it
verifyAndSave(user, ytChannelId, result, b2yFiles, y2bFiles, outcome) ==
    IF savesMapping(result)
    THEN LET p == persist(b2yFiles, y2bFiles, user.uid, ytChannelId,
                          result.mapping, outcome)
         IN [b2y |-> p.b2y, y2b |-> p.y2b,
             pushed |-> <<verifiedResult(result, user)>>
                            \o [k \in 1..Len(p.thrown) |-> errorResult(p.thrown[k], user)]]
    ELSE [b2y |-> b2yFiles, y2b |-> y2bFiles,
          pushed |-> <<verifiedResult(result, user)>>]

\* the final verify of an iteration whose channel is known
finalVerify(user, channel, userInfo, titles, date) ==
    verify(user.uid, channel.value,
           apiFor(userInfo, titles[channel.value], channel.value), date)

\* one iteration of the for loop
processUser(user, userInfo, found, titles, outcome, b2yFiles, y2bFiles, date) ==
    LET channel == resolveChannel(user, userInfo, found, titles, date)
    IN IF ~channel.ok
       THEN [b2y |-> b2yFiles, y2b |-> y2bFiles,
             pushed |-> <<errorResult(channel.error, user)>>]
       ELSE IF channel.value = Undefined
       THEN [b2y |-> b2yFiles, y2b |-> y2bFiles, pushed |-> <<noChannelResult(user)>>]
       ELSE verifyAndSave(user, channel.value,
                          finalVerify(user, channel, userInfo, titles, date),
                          b2yFiles, y2bFiles, outcome)

\* the responses that can matter to the iteration for `user`
TitleChoices(user) ==
    {titles \in [WorkflowChannels -> WorkflowTitles] :
        \A c \in WorkflowChannels :
            (user.ytChannelId # Undefined /\ c # user.ytChannelId)
                => titles[c] = titleAbcdeChannel}

SearchChoices(user) ==
    IF user.ytChannelId = Undefined THEN SearchResponses ELSE {Ok(<<>>)}

OutcomeChoices(user, userInfo, found, titles, date) ==
    LET channel == resolveChannel(user, userInfo, found, titles, date)
    IN IF channel.ok /\ channel.value # Undefined
          /\ savesMapping(finalVerify(user, channel, userInfo, titles, date))
       THEN WriteOutcomes ELSE {"ok"}

\* JSON.parse(usersJson)
ParseUsers ==
    /\ pc = "start"
    /\ users' \in WorkLists
    /\ pc' = "loop"
    /\ UNCHANGED <<idx, b2y, y2b, results>>
    /\ UNCHANGED <<verifierVars, shardVars, limiterVars, submitVars, clientVars>>

\* a required environment variable is missing: main throws before the loop
MissingEnvironment ==
    /\ pc = "start"
    /\ pc' = "aborted"
    /\ UNCHANGED <<users, idx, b2y, y2b, results>>
    /\ UNCHANGED <<verifierVars, shardVars, limiterVars, submitVars, clientVars>>

ProcessUser ==
    /\ pc = "loop"
    /\ idx < Len(users)
    /\ LET user == users[idx + 1]
           date == idx + 1
       IN \E userInfo \in UserInfoResponses(user.uid), found \in SearchChoices(user),
             titles \in TitleChoices(user) :
            \E outcome \in OutcomeChoices(user, userInfo, found, titles, date) :
               LET done == processUser(user, userInfo, found, titles, outcome,
                                       b2y, y2b, date)
               IN /\ b2y' = done.b2y
                  /\ y2b' = done.y2b
                  /\ results' = results \o done.pushed
    /\ idx' = idx + 1
    /\ UNCHANGED <<users, pc>>
    /\ UNCHANGED <<verifierVars, shardVars, limiterVars, submitVars, clientVars>>

\* after the loop: buildIndex on both stores, then writeIndex on both
RebuildIndexes ==
    /\ pc = "loop"
    /\ idx = Len(users)
    /\ \E scanB \in ScanOrders(b2y), scanY \in ScanOrders(y2b),
          failing \in {"none", "b2y", "y2b"} :
          /\ b2y' = IF failing = "b2y" THEN b2y
                    ELSE writeIndex(b2y, buildIndex(b2y, scanB))
          /\ y2b' = IF failing = "none" THEN writeIndex(y2b, buildIndex(y2b, scanY))
                    ELSE y2b
          /\ pc' = IF failing = "none" THEN "done" ELSE "aborted"
    /\ UNCHANGED <<users, idx, results>>
    /\ UNCHANGED <<verifierVars, shardVars, limiterVars, submitVars, clientVars>>

NextWorkflow == ParseUsers \/ MissingEnvironment \/ ProcessUser \/ RebuildIndexes

SpecWorkflow ==
    Init /\ [][NextWorkflow]_vars

(***************************************************************************)
(* UserScanner.deduplicateUsers over the results of the scans of one run.  *)
(***************************************************************************)
MaxResults == 2
MaxResultUsers == 2

\* the users a scan finds: the same uid may come with different names
ScannedUsers ==
    { BilibiliUser(uid111, nameAbCde, <<>>, Num(0)),
      BilibiliUser(uid111, namePindao, <<>>, Num(0)),
      BilibiliUser(uid69235, nameAbCde, <<>>, Num(0)) }

\* a ScanResult with the fields deduplicateUsers reads
ScanResult(userList) == [type |-> "hot", users |-> userList]

ScanResults ==
    { ScanResult(l) : l \in UNION { [1..n -> ScannedUsers] : n \in 0..MaxResultUsers } }

\* the users of every result, in the order the two loops visit them
RECURSIVE Flatten(_)
Flatten(scanResults) ==
    IF scanResults = <<>> THEN <<>>
    ELSE Head(scanResults).users \o Flatten(Tail(scanResults))

deduplicateUsers_keepAll(scanResults) == Flatten(scanResults)

\* for (const user of result.users): from the k-th user on
RECURSIVE dedupUsers(_, _, _)
dedupUsers(userList, k, acc) ==
    IF k > Len(userList) THEN acc
    ELSE LET user == userList[k]
         IN dedupUsers(userList, k + 1,
                IF user.uid \in acc.seenUids THEN acc
                ELSE [seenUids    |-> acc.seenUids \cup {user.uid},
                      uniqueUsers |-> Append(acc.uniqueUsers, user)])

\* for (const result of results): from the r-th result on
RECURSIVE dedupResults(_, _, _)
dedupResults(scanResults, r, acc) ==
    IF r > Len(scanResults) THEN acc
    ELSE dedupResults(scanResults, r + 1, dedupUsers(scanResults[r].users, 1, acc))

deduplicateUsers(scanResults) ==
    dedupResults(scanResults, 1, [seenUids |-> {}, uniqueUsers |-> <<>>]).uniqueUsers

\* scanner.deduplicateUsers(results)
DeduplicateUsersCall ==
    /\ opOut = Undefined
    /\ \E scanResults \in UNION { [1..n -> ScanResults] : n \in 0..MaxResults } :
          opOut' = [op |-> "deduplicateUsers", userId |-> Undefined, threw |-> FALSE,
                    value |-> deduplicateUsers(scanResults), results |-> scanResults]
    /\ UNCHANGED <<fs, inflight, lastWrite, built, batch>>
    /\ UNCHANGED <<verifierVars, workflowVars, limiterVars, submitVars, clientVars>>

NextDedup == DeduplicateUsersCall

SpecDedup ==
    Init /\ [][NextDedup]_vars

\* the position of the first user with this uid
FirstSeen(userList, uid) ==
    CHOOSE j \in 1..Len(userList) :
        userList[j].uid = uid /\ \A i \in 1..(j - 1) : userList[i].uid # uid

\* C21: deduplicateUsers(results) returns every identifier that occurs in any
\* result exactly once, in first-seen order over the results and their users
\* in list order, keeping the first occurrence of a repeated identifier; the
\* empty input gives the empty list.
C21_FirstSeenOnce ==
    JustReturned("deduplicateUsers") =>
        LET all == Flatten(opOut.results)
            out == opOut.value
        IN /\ {out[k].uid : k \in 1..Len(out)} = {all[j].uid : j \in 1..Len(all)}
           /\ \A k, l \in 1..Len(out) : k # l => out[k].uid # out[l].uid
           /\ \A k \in 1..Len(out) : out[k] = all[FirstSeen(all, out[k].uid)]
           /\ \A k, l \in 1..Len(out) :
                  k < l => FirstSeen(all, out[k].uid) < FirstSeen(all, out[l].uid)
           /\ opOut.results = <<>> => out = <<>>

\* a uid found by both results under different names: the first is kept, and
\* a second uid follows it
C21_Witness ==
    /\ JustReturned("deduplicateUsers")
    /\ Len(opOut.results) = 2
    /\ Len(opOut.value) = 2
    /\ \E j \in 1..Len(opOut.results[2].users) :
          /\ opOut.results[2].users[j].uid = opOut.value[1].uid
          /\ opOut.results[2].users[j].name # opOut.value[1].name

(***************************************************************************)
(* UserScanner.isColdStart over the two stores the workflow writes: their  *)
(* mapping files are written and their indexes rebuilt independently.      *)
(***************************************************************************)
isColdStart_either(b2yFiles, y2bFiles) ==
    IsNull(readIndex(b2yFiles)) \/ IsNull(readIndex(y2bFiles))

\* !b2yIndex && !y2bIndex: an index object, even {}, is truthy
isColdStart(b2yFiles, y2bFiles) ==
    IsNull(readIndex(b2yFiles)) /\ IsNull(readIndex(y2bFiles))

\* await shardManagers.<store>.writeMapping(key, mapping)
StoreWriteMapping ==
    /\ \E mapping \in SampleMappings, store \in {"b2y", "y2b"} :
          /\ b2y' = IF store = "b2y"
                    THEN writeMapping(b2y, DEFAULT_SHARD_CONFIG, mapping.bilibiliUid, mapping)
                    ELSE b2y
          /\ y2b' = IF store = "y2b"
                    THEN writeMapping(y2b, DEFAULT_SHARD_CONFIG, mapping.youtubeChannelId, mapping)
                    ELSE y2b
          /\ opOut' = Returned("writeMapping", store, Undefined)
    /\ UNCHANGED <<users, idx, results, pc>>
    /\ UNCHANGED <<fs, inflight, lastWrite, built, batch>>
    /\ UNCHANGED <<verifierVars, limiterVars, submitVars, clientVars>>

\* await shardManagers.<store>.buildIndex()
StoreBuildIndex ==
    /\ \E store \in {"b2y", "y2b"} :
          /\ \E scan \in ScanOrders(IF store = "b2y" THEN b2y ELSE y2b) :
                /\ b2y' = IF store = "b2y" THEN writeIndex(b2y, buildIndex(b2y, scan)) ELSE b2y
                /\ y2b' = IF store = "y2b" THEN writeIndex(y2b, buildIndex(y2b, scan)) ELSE y2b
          /\ opOut' = Returned("buildIndex", store, Undefined)
    /\ UNCHANGED <<users, idx, results, pc>>
    /\ UNCHANGED <<fs, inflight, lastWrite, built, batch>>
    /\ UNCHANGED <<verifierVars, limiterVars, submitVars, clientVars>>

\* await scanner.isColdStart()
IsColdStartCall ==
    /\ opOut' = Returned("isColdStart", Undefined, isColdStart(b2y, y2b))
    /\ UNCHANGED workflowVars
    /\ UNCHANGED <<fs, inflight, lastWrite, built, batch>>
    /\ UNCHANGED <<verifierVars, limiterVars, submitVars, clientVars>>

NextColdStart == StoreWriteMapping \/ StoreBuildIndex \/ IsColdStartCall

SpecColdStart ==
    Init /\ [][NextColdStart]_vars

\* the store has a persisted index file
HasIndexFile(files) == indexJson \in DOMAIN files

\* C22: isColdStart() returns true exactly when neither store has a persisted
\* index; as soon as either store has an index file, even one holding the
\* empty index, it returns false.
C22_ColdIffNoIndex ==
    JustReturned("isColdStart") =>
        (opOut.value <=> (~HasIndexFile(b2y) /\ ~HasIndexFile(y2b)))

\* isColdStart() returned false with an empty index in one store and no index
\* file in the other
C22_Witness ==
    /\ JustReturned("isColdStart")
    /\ ~opOut.value
    /\ HasIndexFile(b2y) /\ readIndex(b2y) = <<>>
    /\ ~HasIndexFile(y2b)

(***************************************************************************)
(* Properties of the verify workflow                                       *)
(***************************************************************************)
\* m is what both stores return for its two identifiers
Mirrored(m) ==
    /\ readMapping(b2y, DEFAULT_SHARD_CONFIG, m.bilibiliUid) = m
    /\ readMapping(y2b, DEFAULT_SHARD_CONFIG, m.youtubeChannelId) = m

\* C2: for every mapping m readable from either store, reading the store keyed
\* by source identifier under m's source identifier and the store keyed by
\* target identifier under m's target identifier both return a record identical
\* to m.
C2_MirrorInvariant ==
    /\ \A uid \in WorkflowUids :
          LET m == readMapping(b2y, DEFAULT_SHARD_CONFIG, uid)
          IN ~IsNull(m) => Mirrored(m)
    /\ \A channelId \in WorkflowChannels :
          LET m == readMapping(y2b, DEFAULT_SHARD_CONFIG, channelId)
          IN ~IsNull(m) => Mirrored(m)

\* the result pushed last by the iteration that has just run
LastResult == results[Len(results)]

\* every record readable before a step is returned unchanged after it
StoresKeepRecords ==
    /\ \A uid \in WorkflowUids :
          ~IsNull(readMapping(b2y, DEFAULT_SHARD_CONFIG, uid)) =>
              readMapping(b2y, DEFAULT_SHARD_CONFIG, uid)'
                  = readMapping(b2y, DEFAULT_SHARD_CONFIG, uid)
    /\ \A channelId \in WorkflowChannels :
          ~IsNull(readMapping(y2b, DEFAULT_SHARD_CONFIG, channelId)) =>
              readMapping(y2b, DEFAULT_SHARD_CONFIG, channelId)'
                  = readMapping(y2b, DEFAULT_SHARD_CONFIG, channelId)

\* C13: an iteration that fails on its item (collaborator error or storage
\* error) records a level-4 failure carrying that item's ticket, leaves the run
\* in its loop (so the next item, and after the last item the index rebuild,
\* still run), and leaves every mapping written for earlier items unchanged.
C13_RunSurvivesBadItem ==
    [][ (idx' = idx + 1 /\ ~LastResult'.success) =>
            /\ LastResult'.level = 4
            /\ LastResult'.issueNumber = users[idx + 1].issueNumber
            /\ pc' = "loop"
            /\ StoresKeepRecords ]_vars

\* the mapping files of a store: every .json file but the index
MappingFiles(files) == {path \in jsonPaths(files) : path # indexJson /\ ~files[path].empty}

\* the index file of a store names both identifiers of every mapping file
IndexCovers(files) ==
    LET index == readIndex(files)
    IN /\ ~IsNull(index)
       /\ \A path \in MappingFiles(files) :
             LET mapping == files[path].json
             IN /\ mapping.bilibiliUid \in DOMAIN index
                /\ mapping.youtubeChannelId \in DOMAIN index
                /\ index[mapping.bilibiliUid] = path
                /\ index[mapping.youtubeChannelId] = path

\* C26: an index file exists only once the loop has run over every work item
\* (the rebuild is not interleaved with the writes), and when the run is done
\* the index written for each store holds, for every mapping file written
\* during the run, its source and its target identifier mapped to its path.
C26_RebuildAfterWrites ==
    /\ (indexJson \in DOMAIN b2y \/ indexJson \in DOMAIN y2b) =>
          (pc \in {"done", "aborted"} /\ idx = Len(users))
    /\ pc = "done" => (IndexCovers(b2y) /\ IndexCovers(y2b))

\* C29: the run emits exactly one result entry per work item, in input order,
\* each carrying that item's ticket reference, whatever the item's outcome.
C29_OneResultPerItem ==
    /\ Len(results) = idx
    /\ \A k \in 1..Len(results) :
          k <= Len(users) /\ results[k].issueNumber = users[k].issueNumber

(***************************************************************************)
(* RateLimiter.  A task is named by its submission number.  An activation  *)
(* of process() is at "task" while the task it called is pending, at       *)
(* "wrapper" once that task has settled and the queued wrapper has yet to  *)
(* settle the promise execute returned, and at "delay" while its timer     *)
(* runs.                                                                   *)
(***************************************************************************)
MaxTasks == 4

startsProcess_always(processingFlag) == TRUE

\* if (!this.processing) this.process()
startsProcess(processingFlag) == ~processingFlag

settledPromise_alwaysResolved(outcome) == "resolved"

\* try { resolve(await fn()) } catch (error) { reject(error) }
settledPromise(outcome) == outcome

timerFired_atOnce(elapsed) == TRUE

processingAfterDrain_stuck == TRUE

\* this.processing = false, once the while loop finds the queue empty
processingAfterDrain == FALSE

\* setTimeout(resolve, this.delayMs): the callback runs once delayMs have passed
timerFired(elapsed) == elapsed >= DelayTicks

\* what the limiter is doing when execute is called
limiterPhase == IF loops = {} THEN "idle" ELSE (CHOOSE l \in loops : TRUE).at

\* a task as execute queues it
QueuedTask(phase) ==
    [status |-> "queued", promise |-> "pending", submittedWhile |-> phase,
     startGap |-> Undefined]

\* an activation of process() that has just called the wrapper of `task`
LoopAtTask(task) == [at |-> "task", task |-> task, elapsed |-> 0]

\* the wrapper of `task` is called: the task starts, sinceCompletion after the
\* completion of the task before it
started(taskList, task) ==
    [taskList EXCEPT ![task].status = "running", ![task].startGap = sinceCompletion]

\* execute(fn): push the wrapper; if no loop is marked as running, process() runs
\* up to its first await, which is the call of the wrapper at the head of the queue
Execute ==
    /\ Len(tasks) < MaxTasks
    /\ LET id        == Len(tasks) + 1
           pushed    == Append(queue, id)
           submitted == Append(tasks, QueuedTask(limiterPhase))
       IN IF startsProcess(processing)
          THEN /\ processing' = TRUE
               /\ queue' = Tail(pushed)
               /\ tasks' = started(submitted, Head(pushed))
               /\ loops' = loops \cup {LoopAtTask(Head(pushed))}
          ELSE /\ queue' = pushed
               /\ tasks' = submitted
               /\ UNCHANGED <<processing, loops>>
    /\ UNCHANGED sinceCompletion
    /\ UNCHANGED <<verifierVars, shardVars, workflowVars, submitVars, clientVars>>

\* the promise of the running task settles
TaskSettles ==
    /\ \E l \in loops, outcome \in {"resolved", "rejected"} :
          /\ l.at = "task"
          /\ tasks' = [tasks EXCEPT ![l.task].status = outcome]
          /\ loops' = (loops \ {l}) \cup {[l EXCEPT !.at = "wrapper"]}
    /\ sinceCompletion' = 0
    /\ UNCHANGED <<queue, processing>>
    /\ UNCHANGED <<verifierVars, shardVars, workflowVars, submitVars, clientVars>>

\* the wrapper resumes: resolve(result) or reject(error); process() resumes behind
\* it and starts the delay timer
WrapperSettles ==
    /\ \E l \in loops :
          /\ l.at = "wrapper"
          /\ tasks' = [tasks EXCEPT ![l.task].promise = settledPromise(tasks[l.task].status)]
          /\ loops' = (loops \ {l}) \cup {[l EXCEPT !.at = "delay", !.elapsed = 0]}
    /\ UNCHANGED <<queue, processing, sinceCompletion>>
    /\ UNCHANGED <<verifierVars, shardVars, workflowVars, submitVars, clientVars>>

\* one tick of the clock: a running timer and the time since the last completion
\* advance together (both are counted up to DelayTicks)
Tick ==
    /\ \/ sinceCompletion < DelayTicks
       \/ \E l \in loops : l.at = "delay" /\ l.elapsed < DelayTicks
    /\ sinceCompletion' = IF sinceCompletion < DelayTicks
                          THEN sinceCompletion + 1 ELSE sinceCompletion
    /\ loops' = {IF l.at = "delay" /\ l.elapsed < DelayTicks
                 THEN [l EXCEPT !.elapsed = l.elapsed + 1] ELSE l : l \in loops}
    /\ UNCHANGED <<queue, processing, tasks>>
    /\ UNCHANGED <<verifierVars, shardVars, workflowVars, submitVars, clientVars>>

\* the timer fires: the while condition, then the next wrapper or the end of process()
DelayElapsed ==
    /\ \E l \in loops :
          /\ l.at = "delay"
          /\ timerFired(l.elapsed)
          /\ IF queue # <<>>
             THEN /\ queue' = Tail(queue)
                  /\ tasks' = started(tasks, Head(queue))
                  /\ loops' = (loops \ {l}) \cup {LoopAtTask(Head(queue))}
                  /\ UNCHANGED processing
             ELSE /\ processing' = processingAfterDrain
                  /\ loops' = loops \ {l}
                  /\ UNCHANGED <<queue, tasks>>
    /\ UNCHANGED sinceCompletion
    /\ UNCHANGED <<verifierVars, shardVars, workflowVars, submitVars, clientVars>>

NextLimiter == Execute \/ TaskSettles \/ WrapperSettles \/ Tick \/ DelayElapsed

SpecLimiter ==
    Init /\ [][NextLimiter]_vars

\* the limiter when every task terminates, promise reactions run to completion,
\* time passes and a due timer callback is run
SpecLimiterFair ==
    /\ SpecLimiter
    /\ WF_vars(TaskSettles) /\ WF_vars(WrapperSettles)
    /\ WF_vars(Tick) /\ WF_vars(DelayElapsed)

(***************************************************************************)
(* Properties of RateLimiter                                               *)
(***************************************************************************)
TaskIds == 1..Len(tasks)

Completed(i) == tasks[i].status \in {"resolved", "rejected"}

\* C5: at most one task is in flight, at most one drain loop is active, and a
\* task has started only if every task submitted before it has completed.
C5_OneAtATimeInOrder ==
    /\ Cardinality({i \in TaskIds : tasks[i].status = "running"}) <= 1
    /\ Cardinality(loops) <= 1
    /\ \A i \in TaskIds, j \in TaskIds :
          (j < i /\ tasks[i].status # "queued") => Completed(j)

\* tasks submitted while idle, while a task was running and during the delay
\* have all run, one after the other
C5_Witness ==
    /\ \A phase \in {"idle", "task", "delay"} :
          \E i \in TaskIds : tasks[i].submittedWhile = phase /\ Completed(i)
    /\ \E i \in TaskIds : tasks[i].status = "running"

\* C14: the promise execute returned settles with the task's own outcome,
\* resolved for a task that resolved and rejected for one that rejected, and
\* only after the task has completed; and while tasks wait in the queue, also
\* behind a task that rejected, the drain loop is active and the queue holds
\* them in submission order.
C14_OwnOutcomeAndLoopSurvives ==
    /\ \A i \in TaskIds :
          tasks[i].promise # "pending" =>
              Completed(i) /\ tasks[i].promise = tasks[i].status
    /\ queue # <<>> => (processing /\ Cardinality(loops) = 1)
    /\ \A k \in 1..Len(queue) :
          /\ tasks[queue[k]].status = "queued"
          /\ k > 1 => queue[k - 1] < queue[k]
    /\ \A i \in TaskIds : tasks[i].status = "queued" => \E k \in 1..Len(queue) : queue[k] = i

\* a task rejected, its promise rejected with it, and the task that was queued
\* behind it has run to completion and settled its own promise
C14_Witness ==
    \E i \in TaskIds :
        /\ i > 1
        /\ tasks[i - 1].status = "rejected" /\ tasks[i - 1].promise = "rejected"
        /\ tasks[i].submittedWhile = "task"
        /\ tasks[i].status = "resolved" /\ tasks[i].promise = "resolved"

\* C15: every task but the first starts no sooner than the full delay after
\* the completion of the task before it, whether it waited in the queue, was
\* submitted during the delay after the last queued task, or was submitted
\* after the queue had drained.
C15_DelayBetweenTasks ==
    \A i \in TaskIds :
        (i > 1 /\ tasks[i].status # "queued") => tasks[i].startGap >= DelayTicks

\* a task submitted during the delay that followed the last queued task and a
\* task submitted after the queue had drained have both started
C15_Witness ==
    /\ \E i \in TaskIds :
          i > 1 /\ tasks[i].submittedWhile = "delay" /\ tasks[i].status # "queued"
    /\ \E i \in TaskIds :
          i > 1 /\ tasks[i].submittedWhile = "idle" /\ tasks[i].status # "queued"

\* C28: no lost wake-up: while tasks wait in the queue a drain loop is
\* running, and, every task terminating, every submitted task is eventually
\* started and its promise eventually settles.
C28_NoLostWakeup ==
    /\ [](queue # <<>> => (processing /\ loops # {}))
    /\ \A i \in 1..MaxTasks :
          (Len(tasks) >= i) ~>
              (/\ Len(tasks) >= i
               /\ tasks[i].status \notin {"queued", "running"}
               /\ tasks[i].promise # "pending")

\* a task submitted between the completion of the running task and the
\* resumption of the loop has been run, and the limiter has drained and stopped
C28_Witness ==
    /\ \E i \in TaskIds :
          tasks[i].submittedWhile = "wrapper" /\ tasks[i].promise # "pending"
    /\ queue = <<>> /\ loops = {} /\ ~processing

(***************************************************************************)
(* The submission worker: POST /submit of one client, handled in           *)
(* MaxConcurrent slots. checkRateLimit reads the client's counter from the *)
(* key-value store, decides, and writes it back; each await is a step.     *)
(* The expiry of the key is not modelled: an expired key reads as null,    *)
(* which takes the same branch as now > resetAt.                           *)
(***************************************************************************)
RATE_LIMIT == 10
\* the rate-limit window: 3600000 ms, one hour, in ticks of half an hour
WindowTicks == 2
MaxRequests == 11

\* what checkRateLimit puts after the get resolved with data: null when it
\* returns false without writing
rateLimitWrite(data, now) ==
    IF IsNull(data) THEN [count |-> 1, resetAt |-> now + WindowTicks]
    ELSE IF now > data.resetAt THEN [count |-> 1, resetAt |-> now + WindowTicks]
    ELSE IF data.count >= RATE_LIMIT THEN Null
    ELSE [count |-> data.count + 1, resetAt |-> data.resetAt]

\* the first branch of checkRateLimit: a new window starts
resetsWindow(data, now) == IsNull(data) \/ now > data.resetAt

\* the responses of the handler once checkRateLimit allowed the request
SubmitResponses ==
    { [status |-> 400, ticket |-> FALSE],     \* invalid JSON, or validation failed
      [status |-> 200, ticket |-> TRUE],      \* the issue was created
      [status |-> 500, ticket |-> FALSE] }    \* octokit threw

\* Date.now() advances
SubmitTick ==
    /\ time < MaxTime
    /\ time' = time + 1
    /\ UNCHANGED <<kv, submissions, received, admitted, windows, response>>
    /\ UNCHANGED <<verifierVars, shardVars, workflowVars, limiterVars, clientVars>>

\* POST /submit arrives: checkRateLimit takes now and awaits the get
ReceiveSubmit ==
    /\ received < MaxRequests
    /\ \E slot \in 1..MaxConcurrent :
          /\ submissions[slot] = Idle
          /\ submissions' = [submissions EXCEPT ![slot] = [at |-> "get", now |-> time]]
    /\ received' = received + 1
    /\ UNCHANGED <<time, kv, admitted, windows, response>>
    /\ UNCHANGED <<verifierVars, shardVars, workflowVars, limiterVars, clientVars>>

\* the get resolves: 429 when the count has reached the limit, else the put is awaited
KvGetResolves ==
    /\ \E slot \in 1..MaxConcurrent :
          /\ submissions[slot].at = "get"
          /\ LET now   == submissions[slot].now
                 write == rateLimitWrite(kv, now)
             IN IF IsNull(write)
                THEN /\ submissions' = [submissions EXCEPT ![slot] = Idle]
                     /\ response' = [status |-> 429, ticket |-> FALSE]
                ELSE /\ submissions' = [submissions EXCEPT ![slot] =
                                            [at |-> "put", now |-> now, write |-> write,
                                             reset |-> resetsWindow(kv, now)]]
                     /\ UNCHANGED response
    /\ UNCHANGED <<time, kv, received, admitted, windows>>
    /\ UNCHANGED <<verifierVars, shardVars, workflowVars, limiterVars, clientVars>>

\* the put resolves: checkRateLimit returns true and the handler awaits the
\* body of the request
KvPutResolves ==
    /\ \E slot \in 1..MaxConcurrent :
          /\ submissions[slot].at = "put"
          /\ LET request == submissions[slot]
             IN /\ kv' = request.write
                /\ admitted' = [admitted EXCEPT ![request.now] = @ + 1]
                /\ windows' = IF request.reset
                               THEN windows \cup {[start   |-> request.now,
                                                   resetAt |-> request.write.resetAt]}
                               ELSE windows
          /\ submissions' = [submissions EXCEPT ![slot] = [at |-> "json"]]
    /\ UNCHANGED <<time, received, response>>
    /\ UNCHANGED <<verifierVars, shardVars, workflowVars, limiterVars, clientVars>>

\* c.req.json() settles: 400 for a body that is not JSON or fails the schema,
\* else issues.create is awaited
BodyResolves ==
    /\ \E slot \in 1..MaxConcurrent :
          /\ submissions[slot].at = "json"
          /\ \/ /\ submissions' = [submissions EXCEPT ![slot] = Idle]
                /\ response' = [status |-> 400, ticket |-> FALSE]
             \/ /\ submissions' = [submissions EXCEPT ![slot] = [at |-> "create"]]
                /\ UNCHANGED response
    /\ UNCHANGED <<time, kv, received, admitted, windows>>
    /\ UNCHANGED <<verifierVars, shardVars, workflowVars, limiterVars, clientVars>>

\* issues.create settles: 200 with the issue, or 500 when octokit threw
IssueCreateResolves ==
    /\ \E slot \in 1..MaxConcurrent :
          /\ submissions[slot].at = "create"
          /\ submissions' = [submissions EXCEPT ![slot] = Idle]
    /\ \E r \in SubmitResponses : r.status # 400 /\ response' = r
    /\ UNCHANGED <<time, kv, received, admitted, windows>>
    /\ UNCHANGED <<verifierVars, shardVars, workflowVars, limiterVars, clientVars>>

NextSubmit ==
    \/ SubmitTick \/ ReceiveSubmit \/ KvGetResolves \/ KvPutResolves
    \/ BodyResolves \/ IssueCreateResolves

SpecSubmit ==
    Init /\ [][NextSubmit]_vars

\* the requests received from window.start to window.resetAt that were admitted
RECURSIVE AdmittedFrom(_, _)
AdmittedFrom(t, last) ==
    IF t > last \/ t > MaxTime THEN 0 ELSE admitted[t] + AdmittedFrom(t + 1, last)

AdmittedIn(window) == AdmittedFrom(window.start, window.resetAt)

\* C23: for any interleaving of the requests of one client, at most 10
\* requests are admitted between the start of a rate-limit window and its
\* resetAt; a request answered 429 files no ticket.
C23_CeilingPerWindow ==
    /\ \A window \in windows : AdmittedIn(window) <= RATE_LIMIT
    /\ (response # Undefined /\ response.status = 429) => ~response.ticket

(***************************************************************************)
(* MappingClient: getMappingByBiliUid and clearCache of one client. Each   *)
(* await of getMappingByBiliUid is a step; what a fetch answers is the     *)
(* environment's choice.                                                   *)
(***************************************************************************)
TtlTicks == 2

isCacheValid_inclusive(cached, now) ==
    IF IsNull(cached) THEN FALSE ELSE now - cached.timestamp <= TtlTicks

\* Date.now() - cached.timestamp < CACHE_TTL
isCacheValid(cached, now) ==
    IF IsNull(cached) THEN FALSE ELSE now - cached.timestamp < TtlTicks

\* the index documents b2y/index.json may hold: every uid, or none
RemoteIndexes ==
    { [uid \in ClientUids |-> getShardPath(DEFAULT_SHARD_CONFIG, uid)], <<>> }

\* the mapping documents the shard file of uid may hold
RemoteMappings(uid) ==
    { [bilibiliUid |-> uid, youtubeChannelId |-> IF uid = uid111 THEN chUC1 ELSE chUC2] }

\* fetchWithFallback: the CDN answers, or the fallback answers after one more
\* fetch, or the fallback fails too and the call throws
FetchOutcomes(documents) ==
    { [ok |-> TRUE, extra |-> extra, data |-> data] : extra \in {0, 1}, data \in documents }
        \cup { [ok |-> FALSE, extra |-> 1, data |-> Null] }

\* what the history says of uid when a call is made
Expectation(uid) ==
    LET entry == fetchedLog[uid]
    IN IF entry.state # "fetched" THEN [state |-> entry.state, data |-> Null]
       ELSE IF clientTime - entry.at < TtlTicks THEN [state |-> "hit", data |-> entry.data]
       ELSE [state |-> "expired", data |-> Null]

\* the record of a call that returned
LookupReturned(call, value, fetches) ==
    [uid |-> call.uid, value |-> value, fetches |-> fetches,
     expect |-> call.expect, indexMiss |-> call.indexMiss]

\* getMappingByBiliUid(uid) up to its first await: the cached mapping is
\* returned, or getB2YIndex answers from its cache, or it starts a fetch
GetMappingCall ==
    /\ \E slot \in 1..MaxLookups, uid \in ClientUids :
          /\ lookups[slot] = Idle
          /\ LET cached == mappingCache[uid]
                 call   == [uid |-> uid, expect |-> Expectation(uid),
                            indexMiss |-> /\ isCacheValid(b2yIndex, clientTime)
                                          /\ uid \notin DOMAIN b2yIndex.data]
             IN IF isCacheValid(cached, clientTime)
                THEN /\ lookupOut' = LookupReturned(call, cached.data, 0)
                     /\ UNCHANGED lookups
                ELSE /\ lookups' = [lookups EXCEPT ![slot] =
                            IF isCacheValid(b2yIndex, clientTime)
                            THEN [at |-> "indexCached", call |-> call, fetches |-> 0,
                                  index |-> b2yIndex.data]
                            ELSE [at |-> "indexFetch", call |-> call, fetches |-> 1,
                                  index |-> <<>>]]
                     /\ UNCHANGED lookupOut
    /\ UNCHANGED <<clientTime, b2yIndex, mappingCache, fetchedLog>>
    /\ UNCHANGED <<verifierVars, shardVars, workflowVars, limiterVars, submitVars>>

\* await this.getB2YIndex() resolves; then index[uid] is looked up and the
\* shard file is fetched, or null is returned
IndexResolves ==
    /\ \E slot \in 1..MaxLookups :
          /\ lookups[slot].at \in {"indexCached", "indexFetch"}
          /\ LET lookup == lookups[slot]
             IN \E outcome \in IF lookup.at = "indexCached"
                                THEN {[ok |-> TRUE, extra |-> 0, data |-> lookup.index]}
                                ELSE FetchOutcomes(RemoteIndexes) :
                  LET fetches == lookup.fetches + outcome.extra
                  IN /\ b2yIndex' = IF lookup.at = "indexFetch" /\ outcome.ok
                                     THEN [data |-> outcome.data, timestamp |-> clientTime]
                                     ELSE b2yIndex
                     /\ IF outcome.ok /\ lookup.call.uid \in DOMAIN outcome.data
                        THEN /\ lookups' = [lookups EXCEPT ![slot] =
                                    [at |-> "mappingFetch", call |-> lookup.call,
                                     fetches |-> fetches + 1, index |-> <<>>]]
                             /\ UNCHANGED lookupOut
                        ELSE /\ lookups' = [lookups EXCEPT ![slot] = Idle]
                             /\ lookupOut' = LookupReturned(lookup.call, Null, fetches)
    /\ UNCHANGED <<clientTime, mappingCache, fetchedLog>>
    /\ UNCHANGED <<verifierVars, shardVars, workflowVars, limiterVars, submitVars>>

\* await this.fetchWithFallback(`b2y/${shardPath}`) settles: the mapping is
\* cached with Date.now() and returned, or the catch block returns null
MappingResolves ==
    /\ \E slot \in 1..MaxLookups :
          /\ lookups[slot].at = "mappingFetch"
          /\ LET lookup == lookups[slot]
                 uid    == lookup.call.uid
             IN \E outcome \in FetchOutcomes(RemoteMappings(uid)) :
                  LET fetches == lookup.fetches + outcome.extra
                  IN /\ mappingCache' = IF outcome.ok
                                         THEN [mappingCache EXCEPT ![uid] =
                                                  [data |-> outcome.data,
                                                   timestamp |-> clientTime]]
                                         ELSE mappingCache
                     /\ fetchedLog' = IF outcome.ok
                                       THEN [fetchedLog EXCEPT ![uid] =
                                                [state |-> "fetched", data |-> outcome.data,
                                                 at |-> clientTime]]
                                       ELSE fetchedLog
                     /\ lookupOut' = LookupReturned(lookup.call, outcome.data, fetches)
          /\ lookups' = [lookups EXCEPT ![slot] = Idle]
    /\ UNCHANGED <<clientTime, b2yIndex>>
    /\ UNCHANGED <<verifierVars, shardVars, workflowVars, limiterVars, submitVars>>

\* clearCache()
ClearCacheCall ==
    /\ b2yIndex' = Null
    /\ mappingCache' = [uid \in ClientUids |-> Null]
    /\ fetchedLog' = [uid \in ClientUids |-> [state |-> "cleared"]]
    /\ UNCHANGED <<clientTime, lookups, lookupOut>>
    /\ UNCHANGED <<verifierVars, shardVars, workflowVars, limiterVars, submitVars>>

\* Date.now() advances
ClientTick ==
    /\ clientTime < MaxClientTime
    /\ clientTime' = clientTime + 1
    /\ UNCHANGED <<b2yIndex, mappingCache, lookups, lookupOut, fetchedLog>>
    /\ UNCHANGED <<verifierVars, shardVars, workflowVars, limiterVars, submitVars>>

NextClient ==
    GetMappingCall \/ IndexResolves \/ MappingResolves \/ ClearCacheCall \/ ClientTick

SpecClient ==
    Init /\ [][NextClient]_vars

\* a call made while the mapping fetched less than CACHE_TTL ago stands
\* returns that mapping and issues no fetch
CachedWhileFresh ==
    (lookupOut # Undefined /\ lookupOut.expect.state = "hit") =>
        /\ lookupOut.fetches = 0
        /\ lookupOut.value = lookupOut.expect.data

\* C24 as stated: after a call that fetched a mapping, a call for the same uid
\* less than CACHE_TTL later returns that mapping without any fetch; after
\* clearCache(), or once the TTL has elapsed, the next call issues fetches.
C24_FetchAgainAlways ==
    /\ CachedWhileFresh
    /\ (lookupOut # Undefined /\ lookupOut.expect.state \in {"cleared", "expired"}) =>
           lookupOut.fetches >= 1

\* C24 amended: after clearCache(), or once the TTL has elapsed, the next call
\* no longer answers from the cached mapping: it issues fetches, unless an
\* index cached less than CACHE_TTL ago lacks the uid, in which case it
\* returns null without a fetch.
C24_FetchAgainUnlessIndexMiss ==
    /\ CachedWhileFresh
    /\ (lookupOut # Undefined /\ lookupOut.expect.state \in {"cleared", "expired"}) =>
           \/ lookupOut.fetches >= 1
           \/ lookupOut.indexMiss /\ lookupOut.fetches = 0 /\ IsNull(lookupOut.value)

\* a call made later than the fetch, and less than CACHE_TTL later, that was
\* answered with the fetched mapping and without a fetch
C24_Witness ==
    /\ lookupOut # Undefined
    /\ lookupOut.expect.state = "hit"
    /\ lookupOut.fetches = 0
    /\ fetchedLog[lookupOut.uid].state = "fetched"
    /\ ~IsNull(lookupOut.value)
    /\ ~IsNull(fetchedLog[lookupOut.uid].data)
    /\ lookupOut.value = fetchedLog[lookupOut.uid].data
    /\ fetchedLog[lookupOut.uid].at < clientTime

====
